---- MODULE Spec2Model ----
(***************************************************************************)
(* Model of the action-sequence memory and execution engine of             *)
(* mcp-selenium: the run_sequence / interrupt_sequence handlers, the       *)
(* recording tools and recordAction of src/lib/server.js, and the          *)
(* SQLite-backed MemoryStore they use.                                     *)
(*                                                                         *)
(* JavaScript handlers are atomic between awaits: a handler runs without   *)
(* interruption until it awaits a driver call, and other handlers (a       *)
(* second run_sequence, interrupt_sequence) run while it is suspended.     *)
(* Each action below is one such atomic piece of a handler.                *)
(***************************************************************************)
EXTENDS Integers, Sequences, FiniteSets, TLC

(* ---------------------------------------------------------------------- *)
(* Bounds of the model                                                     *)
(* ---------------------------------------------------------------------- *)

\* number of run_sequence invocations the agent issues (they may overlap)
MaxRuns == 2

(* ---------------------------------------------------------------------- *)
(* Text: a string whose content matters is a sequence of one-character     *)
(* strings.                                                                *)
(* ---------------------------------------------------------------------- *)

NULL == "null"

QUOTE == "\""

BACKSLASH == "\\"

\* JavaScript truthiness of a value that is null or a string
Truthy(s) == s # NULL /\ s # ""

\* The one element of a one-element set. Only({e : x \in {a}}) is e with x
\* standing for the value of a: TLC works an operator's argument out again at
\* each use of the parameter, and a bound variable holds a value.
Only(S) == CHOOSE x \in S : TRUE

\* text t has pattern p at position i (1-based)
MatchAt(t, p, i) ==
    /\ i + Len(p) - 1 <= Len(t)
    /\ \A j \in 1..Len(p) : t[i + j - 1] = p[j]

\* String.prototype.includes
Includes(t, p) == \E i \in 1..(Len(t) + 1) : MatchAt(t, p, i)

\* the character of p at index i, or "" past its ends
At(p, i) == IF i >= 1 /\ i <= Len(p) THEN p[i] ELSE ""

Digit(d) == CASE d = 0 -> "0" [] d = 1 -> "1" [] d = 2 -> "2" [] d = 3 -> "3"
              [] d = 4 -> "4" [] d = 5 -> "5" [] d = 6 -> "6" [] d = 7 -> "7"
              [] d = 8 -> "8" [] d = 9 -> "9"

RECURSIVE NumberText(_)
NumberText(n) == IF n < 10 THEN <<Digit(n)>>
                 ELSE NumberText(n \div 10) \o <<Digit(n % 10)>>

(* ---------------------------------------------------------------------- *)
(* JSON.stringify / JSON.parse on parameter objects.                       *)
(* A parameter object is a sequence (property order) of                    *)
(* [k |-> text, v |-> value]; a value is [t |-> "str", s |-> text] or      *)
(* [t |-> "num", n |-> Nat].                                               *)
(* ---------------------------------------------------------------------- *)

Str(s) == [t |-> "str", s |-> s]

Num(n) == [t |-> "num", n |-> n]

Prop(k, v) == [k |-> k, v |-> v]

\* JSON string escaping of one character of the model's alphabet
EscapeChar(ch) == IF ch = QUOTE \/ ch = BACKSLASH THEN <<BACKSLASH, ch>> ELSE <<ch>>

\* JSON string escaping of a text
RECURSIVE Escape(_)
Escape(text) ==
    Only({IF s = <<>> THEN <<>> ELSE EscapeChar(Head(s)) \o Escape(Tail(s))
          : s \in {text}})

QuoteText(s) == <<QUOTE>> \o Escape(s) \o <<QUOTE>>

StringifyValue(v) == IF v.t = "num" THEN NumberText(v.n) ELSE QuoteText(v.s)

RECURSIVE StringifyProps(_)
StringifyProps(props) ==
    Only({IF ps = <<>> THEN <<>>
          ELSE QuoteText(Head(ps).k) \o <<":">> \o StringifyValue(Head(ps).v)
               \o (IF Tail(ps) = <<>> THEN <<>>
                   ELSE <<",">> \o StringifyProps(Tail(ps)))
          : ps \in {props}})

\* JSON.stringify(parameters)
JSONStringify(ps) == <<"{">> \o StringifyProps(ps) \o <<"}">>

ParseFail == [ok |-> FALSE]

\* reads the body of a JSON string of text from position pos (just after the
\* opening quote) up to its closing quote; sofar is the text read so far
RECURSIVE ParseStringBody(_, _, _)
ParseStringBody(text, pos, sofar) ==
    Only({IF i > Len(t) THEN ParseFail
          ELSE IF t[i] = QUOTE THEN [ok |-> TRUE, s |-> acc, next |-> i + 1]
          ELSE IF t[i] = BACKSLASH
               THEN IF i + 1 <= Len(t) /\ (t[i + 1] = QUOTE \/ t[i + 1] = BACKSLASH)
                    THEN ParseStringBody(t, i + 2, Append(acc, t[i + 1]))
                    ELSE ParseFail
          ELSE ParseStringBody(t, i + 1, Append(acc, t[i]))
          : t \in {text}, i \in {pos}, acc \in {sofar}})

ParseString(t, i) ==
    IF i <= Len(t) /\ t[i] = QUOTE THEN ParseStringBody(t, i + 1, <<>>)
    ELSE ParseFail

IsDigit(c) == c \in {"0", "1", "2", "3", "4", "5", "6", "7", "8", "9"}

DigitValue(c) == CHOOSE d \in 0..9 : Digit(d) = c

RECURSIVE ParseDigits(_, _, _)
ParseDigits(text, pos, sofar) ==
    Only({IF i <= Len(t) /\ IsDigit(t[i])
          THEN ParseDigits(t, i + 1, acc * 10 + DigitValue(t[i]))
          ELSE [ok |-> TRUE, v |-> Num(acc), next |-> i]
          : t \in {text}, i \in {pos}, acc \in {sofar}})

\* a JSON value of the model: a string or a non-negative integer
ParseValue(text, pos) ==
    Only({IF i > Len(t) THEN ParseFail
          ELSE IF t[i] = QUOTE
               THEN Only({IF r.ok THEN [ok |-> TRUE, v |-> Str(r.s), next |-> r.next]
                          ELSE ParseFail
                          : r \in {ParseString(t, i)}})
          ELSE IF IsDigit(t[i])
               THEN IF t[i] = "0" /\ i + 1 <= Len(t) /\ IsDigit(t[i + 1])
                    THEN ParseFail
                    ELSE ParseDigits(t, i, 0)
          ELSE ParseFail
          : t \in {text}, i \in {pos}})

\* property assignment of JSON.parse: a repeated key keeps its first place
\* and takes the last value
SetProp(ps, k, v) ==
    IF \E j \in 1..Len(ps) : ps[j].k = k
    THEN [j \in 1..Len(ps) |-> IF ps[j].k = k THEN Prop(k, v) ELSE ps[j]]
    ELSE Append(ps, Prop(k, v))

\* what follows a member's value val at key key: a comma and the next
\* member, or the closing brace at the end of the text
RECURSIVE ParseMembers(_, _, _)
AfterValue(t, acc, key, val) ==
    IF ~val.ok THEN ParseFail
    ELSE IF val.next > Len(t) THEN ParseFail
    ELSE IF t[val.next] = ","
         THEN ParseMembers(t, val.next + 1, SetProp(acc, key.s, val.v))
    ELSE IF t[val.next] = "}" /\ val.next = Len(t)
         THEN [ok |-> TRUE, ps |-> SetProp(acc, key.s, val.v)]
    ELSE ParseFail

\* the members of an object from position pos (at a key), up to the closing
\* brace
ParseMembers(text, pos, sofar) ==
    Only({IF ~key.ok THEN ParseFail
          ELSE IF key.next > Len(t) \/ t[key.next] # ":" THEN ParseFail
          ELSE Only({AfterValue(t, acc, key, val)
                     : val \in {ParseValue(t, key.next + 1)}})
          : t \in {text}, acc \in {sofar}, key \in {ParseString(text, pos)}})

\* JSON.parse(text) of an object text; ok = FALSE is the SyntaxError
JSONParse(text) ==
    Only({IF Len(t) < 2 \/ t[1] # "{" THEN ParseFail
          ELSE IF t = <<"{", "}">> THEN [ok |-> TRUE, ps |-> <<>>]
          ELSE ParseMembers(t, 2, <<>>)
          : t \in {text}})

(* ---------------------------------------------------------------------- *)
(* Variable substitution of run_sequence                                   *)
(* ---------------------------------------------------------------------- *)

\* the source of the pattern new RegExp(`{{${key}}}`, 'g'), for a key made
\* of letters and dots (the keys of the model): the braces and the letters
\* stand for themselves, a dot for any character
PlaceholderPattern(key) == <<"{", "{">> \o key \o <<"}", "}">>

\* the pattern pat matches text t at position i
RegExpMatchAt(t, pat, i) ==
    /\ i + Len(pat) - 1 <= Len(t)
    /\ \A j \in 1..Len(pat) : pat[j] = "." \/ t[i + j - 1] = pat[j]

\* the text String.prototype.replace puts in for the match of length n at
\* position i of t, read from index j of the replacement val: $$ gives one $,
\* $& the matched text, $` the text before the match, $' the text after it,
\* every other character itself (the pattern has no groups, so $1 is text)
RECURSIVE Expand(_, _, _, _, _)
Expand(val, j, t, i, n) ==
    IF j > Len(val) THEN <<>>
    ELSE IF val[j] = "$" /\ j < Len(val) /\ val[j + 1] \in {"$", "&", "`", "'"}
    THEN (CASE val[j + 1] = "$" -> <<"$">>
            [] val[j + 1] = "&" -> SubSeq(t, i, i + n - 1)
            [] val[j + 1] = "`" -> SubSeq(t, 1, i - 1)
            [] val[j + 1] = "'" -> SubSeq(t, i + n, Len(t)))
         \o Expand(val, j + 2, t, i, n)
    ELSE <<val[j]>> \o Expand(val, j + 1, t, i, n)

\* params.replace(/pat/g, val) from position pos on: every non-overlapping
\* occurrence, left to right
RECURSIVE ReplaceFrom(_, _, _, _)
ReplaceFrom(text, pattern, value, pos) ==
    Only({IF i > Len(t) THEN <<>>
          ELSE IF RegExpMatchAt(t, pat, i)
               THEN Expand(val, 1, t, i, Len(pat))
                    \o ReplaceFrom(t, pat, val, i + Len(pat))
          ELSE <<t[i]>> \o ReplaceFrom(t, pat, val, i + 1)
          : t \in {text}, pat \in {pattern}, val \in {value}, i \in {pos}})

ReplaceAll(t, pat, val) == ReplaceFrom(t, pat, val, 1)

\* the for loop over Object.entries(variables)
RECURSIVE ReplaceVariables(_, _)
ReplaceVariables(text, variables) ==
    Only({IF vs = <<>> THEN t
          ELSE ReplaceVariables(
                   ReplaceAll(t, PlaceholderPattern(Head(vs).k), Head(vs).v),
                   Tail(vs))
          : t \in {text}, vs \in {variables}})

\* stringify, replace each variable, parse back; ok = FALSE when JSON.parse throws
Substitute(parameters, variables) ==
    JSONParse(ReplaceVariables(JSONStringify(parameters), variables))

(* ---------------------------------------------------------------------- *)
(* MemoryStore: the tables and the operations the executor uses            *)
(* ---------------------------------------------------------------------- *)

\* a bug: the row of the name is replaced by a new row (INSERT OR REPLACE),
\* with a new id and a new created_at
SaveSequenceDBNewRow(db, name, description, triggerPattern, actions) ==
    LET old == {s \in db.seqs : s.name = name}
        row == [id |-> db.nextSeq, name |-> name, description |-> description,
                trigger_pattern |-> triggerPattern,
                created_at |-> db.now, updated_at |-> db.now]
        kept == {a \in db.acts : \A s \in old : a.sequence_id # s.id}
        new == {[id |-> db.nextAct + i - 1, sequence_id |-> db.nextSeq,
                 step_order |-> i, tool_name |-> actions[i].toolName,
                 parameters |-> JSONStringify(actions[i].parameters)]
                : i \in 1..Len(actions)}
    IN [seqs |-> (db.seqs \ old) \cup {row},
        acts |-> kept \cup new,
        nextSeq |-> db.nextSeq + 1,
        nextAct |-> db.nextAct + Len(actions),
        maps |-> db.maps, nextMap |-> db.nextMap, now |-> db.now]

\* a bug: saveSequence without the delete of the old action rows
SaveSequenceDBKeepsOld(db, name, description, triggerPattern, actions) ==
    LET old == {s \in db.seqs : s.name = name}
        id == IF old = {} THEN db.nextSeq ELSE (CHOOSE s \in old : TRUE).id
        row == [id |-> id, name |-> name, description |-> description,
                trigger_pattern |-> triggerPattern,
                created_at |-> IF old = {} THEN db.now
                               ELSE (CHOOSE s \in old : TRUE).created_at,
                updated_at |-> db.now]
        new == {[id |-> db.nextAct + i - 1, sequence_id |-> id, step_order |-> i,
                 tool_name |-> actions[i].toolName,
                 parameters |-> JSONStringify(actions[i].parameters)]
                : i \in 1..Len(actions)}
    IN [seqs |-> (db.seqs \ old) \cup {row},
        acts |-> db.acts \cup new,
        nextSeq |-> IF old = {} THEN db.nextSeq + 1 ELSE db.nextSeq,
        nextAct |-> db.nextAct + Len(actions),
        maps |-> db.maps, nextMap |-> db.nextMap, now |-> db.now]

\* INSERT ... ON CONFLICT(name) DO UPDATE of saveSequence, then the delete of
\* the old action rows and the insert of the new ones, in one transaction.
\* db = [seqs, acts, nextSeq, nextAct, maps, nextMap, now]; now is the second
\* CURRENT_TIMESTAMP gives
SaveSequenceDB(db, name, description, triggerPattern, actions) ==
    LET old == {s \in db.seqs : s.name = name}
        id == IF old = {} THEN db.nextSeq ELSE (CHOOSE s \in old : TRUE).id
        row == [id |-> id, name |-> name, description |-> description,
                trigger_pattern |-> triggerPattern,
                created_at |-> IF old = {} THEN db.now
                               ELSE (CHOOSE s \in old : TRUE).created_at,
                updated_at |-> db.now]
        kept == {a \in db.acts : a.sequence_id # id}
        new == {[id |-> db.nextAct + i - 1, sequence_id |-> id, step_order |-> i,
                 tool_name |-> actions[i].toolName,
                 parameters |-> JSONStringify(actions[i].parameters)]
                : i \in 1..Len(actions)}
    IN [seqs |-> (db.seqs \ old) \cup {row},
        acts |-> kept \cup new,
        nextSeq |-> IF old = {} THEN db.nextSeq + 1 ELSE db.nextSeq,
        nextAct |-> db.nextAct + Len(actions),
        maps |-> db.maps, nextMap |-> db.nextMap, now |-> db.now]

\* a bug: the statements of saveSequence run outside a transaction, so what
\* was written before the failing statement stays
SaveSequenceTxNoRollback(db, name, description, triggerPattern, actions, failAt) ==
    IF failAt = 0
    THEN [ok |-> TRUE,
          db |-> SaveSequenceDB(db, name, description, triggerPattern, actions)]
    ELSE [ok |-> FALSE,
          db |-> SaveSequenceDB(db, name, description, triggerPattern,
                                SubSeq(actions, 1, failAt - 1))]

\* lines 113-127: the statements of saveSequence inside db.transaction().
\* failAt = 0: every statement succeeds and the transaction commits;
\* failAt = j: the insert of the j-th action throws (a constraint or an I/O
\* error), the transaction is rolled back and the error is rethrown
SaveSequenceTx(db, name, description, triggerPattern, actions, failAt) ==
    IF failAt = 0
    THEN [ok |-> TRUE,
          db |-> SaveSequenceDB(db, name, description, triggerPattern, actions)]
    ELSE [ok |-> FALSE, db |-> db]

\* a bug: the delete without the cascade to sequence_actions
DeleteSequenceDBNoCascade(db, name) ==
    LET old == {s \in db.seqs : s.name = name}
    IN [deleted |-> old # {}, db |-> [db EXCEPT !.seqs = @ \ old]]

\* deleteSequence(name): DELETE FROM action_sequences WHERE name = ?, with
\* the ON DELETE CASCADE of sequence_actions.sequence_id (foreign keys are
\* enforced by default in the SQLite build of better-sqlite3); the result
\* is changes > 0. Row ids are AUTOINCREMENT: nextSeq never goes back.
DeleteSequenceDB(db, name) ==
    LET old == {s \in db.seqs : s.name = name}
    IN [deleted |-> old # {},
        db |-> [db EXCEPT !.seqs = @ \ old,
                          !.acts = {a \in @ : \A s \in old : a.sequence_id # s.id}]]

\* rows ordered by step_order (ties by row id, the order SQLite scans them in)
RECURSIVE OrderByStep(_)
OrderByStep(rows) ==
    IF rows = {} THEN <<>>
    ELSE LET first == CHOOSE a \in rows : \A b \in rows :
                        \/ a.step_order < b.step_order
                        \/ (a.step_order = b.step_order /\ a.id <= b.id)
         IN <<first>> \o OrderByStep(rows \ {first})

\* getSequence(name): null (found = FALSE), or the row with its actions in
\* step order
GetSequenceDB(db, name) ==
    LET found == {s \in db.seqs : s.name = name}
    IN IF found = {} THEN [found |-> FALSE]
       ELSE Only({[found |-> TRUE, name |-> name,
                   actions |-> [i \in 1..Len(rows) |->
                                  [toolName |-> rows[i].tool_name,
                                   parameters |-> JSONParse(rows[i].parameters).ps,
                                   stepOrder |-> rows[i].step_order]]]
                  : rows \in {OrderByStep({a \in db.acts :
                                 a.sequence_id = (CHOOSE s \in found : TRUE).id})}})

\* listSequences(): every sequence row with the count of its action rows
\* (LEFT JOIN ... GROUP BY); the rows as a set, their order left out
ListSequencesDB(db) ==
    {[id |-> s.id, name |-> s.name, description |-> s.description,
      trigger_pattern |-> s.trigger_pattern,
      action_count |-> Cardinality({a \in db.acts : a.sequence_id = s.id})]
     : s \in db.seqs}

(* ---------------------------------------------------------------------- *)
(* MemoryStore: element mappings and the site matcher                      *)
(* ---------------------------------------------------------------------- *)

MAX_PATTERN_LENGTH == 200

\* the first index from i on where p has no digit
RECURSIVE SkipDigits(_, _)
SkipDigits(p, i) ==
    IF i <= Len(p) /\ p[i] \in {"0", "1", "2", "3", "4", "5", "6", "7", "8", "9"}
    THEN SkipDigits(p, i + 1) ELSE i

\* the index of the first ")" from i on, 0 if there is none
RECURSIVE FirstClose(_, _)
FirstClose(p, i) ==
    IF i > Len(p) THEN 0 ELSE IF p[i] = ")" THEN i ELSE FirstClose(p, i + 1)

\* \{\d+,\d*\}\+ or \{\d+,\d*\}\* at index i of p
BraceQuantifierAt(p, i) ==
    /\ At(p, i) = "{"
    /\ \E j \in {SkipDigits(p, i + 1)} :
          /\ j > i + 1
          /\ At(p, j) = ","
          /\ \E k \in {SkipDigits(p, j + 1)} :
                At(p, k) = "}" /\ At(p, k + 1) \in {"+", "*"}

\* \(\?[^)]*\)\+ or \(\?[^)]*\)\* at index i of p
GroupQuantifierAt(p, i) ==
    /\ At(p, i) = "("
    /\ At(p, i + 1) = "?"
    /\ \E j \in {FirstClose(p, i + 2)} : j > 0 /\ At(p, j + 1) \in {"+", "*"}

\* line 266: dangerousPattern.test(site_pattern), an unanchored test of
\* /(\+\+|\*\*|\{\d+,\d*\}\+|\{\d+,\d*\}\*|\(\?[^)]*\)\+|\(\?[^)]*\)\*)/
DangerousPattern(p) ==
    \E i \in 1..Len(p) :
       \/ MatchAt(p, <<"+", "+">>, i)
       \/ MatchAt(p, <<"*", "*">>, i)
       \/ BraceQuantifierAt(p, i)
       \/ GroupQuantifierAt(p, i)

RegExpFail == [ok |-> FALSE, next |-> 0, ends |-> {}]

\* new RegExp(p).test(text) for the part of the syntax the patterns of the
\* model use: literal characters, an escaped \., the dot, groups ( ) and (?: ), and
\* the quantifiers + * ? with their lazy forms. A pattern is read from index
\* i while S, the set of positions of text the match can have reached, is
\* carried along: [ok, next, ends], ok = FALSE for a SyntaxError.
RECURSIVE SeqEnds(_, _, _, _)
RECURSIVE AtomEnds(_, _, _, _)
RECURSIVE StarEnds(_, _, _, _)

\* one atom at index i
AtomEnds(p, i, text, S) ==
    IF p[i] = "("
    THEN LET from == IF At(p, i + 1) = "?" THEN i + 3 ELSE i + 1
         IN IF At(p, i + 1) = "?" /\ At(p, i + 2) # ":" THEN RegExpFail
            ELSE Only({IF r.ok /\ At(p, r.next) = ")"
                       THEN [ok |-> TRUE, next |-> r.next + 1, ends |-> r.ends]
                       ELSE RegExpFail
                       : r \in {SeqEnds(p, from, text, S)}})
    ELSE IF p[i] = BACKSLASH
    THEN IF i = Len(p) THEN RegExpFail
         ELSE [ok |-> TRUE, next |-> i + 2,
               ends |-> {q + 1 : q \in {q \in S : q <= Len(text)
                                                 /\ text[q] = p[i + 1]}}]
    ELSE IF p[i] = "."
    THEN [ok |-> TRUE, next |-> i + 1,
          ends |-> {q + 1 : q \in {q \in S : q <= Len(text)}}]
    ELSE [ok |-> TRUE, next |-> i + 1,
          ends |-> {q + 1 : q \in {q \in S : q <= Len(text)
                                            /\ text[q] = p[i]}}]

\* the positions reached by the atom at index i taken any number of times
StarEnds(p, i, text, S) ==
    Only({IF more \subseteq S THEN S ELSE StarEnds(p, i, text, S \cup more)
          : more \in {AtomEnds(p, i, text, S).ends}})

\* the atoms with their quantifiers from index i up to a ")" or the end
SeqEnds(p, i, text, S) ==
    IF i > Len(p) \/ p[i] = ")" THEN [ok |-> TRUE, next |-> i, ends |-> S]
    ELSE IF p[i] \in {"+", "*", "?"} THEN RegExpFail
    ELSE Only({
        IF ~a.ok THEN RegExpFail
        ELSE LET q == At(p, a.next)
                 after == IF At(p, a.next + 1) = "?" THEN a.next + 2
                          ELSE a.next + 1
             IN IF q = "*" THEN SeqEnds(p, after, text, StarEnds(p, i, text, S))
                ELSE IF q = "+"
                THEN SeqEnds(p, after, text, StarEnds(p, i, text, a.ends))
                ELSE IF q = "?" THEN SeqEnds(p, after, text, S \cup a.ends)
                ELSE SeqEnds(p, a.next, text, a.ends)
        : a \in {AtomEnds(p, i, text, S)}})

\* lines 271-272: new RegExp(site_pattern), which throws on a pattern that
\* is no regular expression, and the unanchored pattern.test(url)
RegExpTest(p, text) ==
    Only({IF ~r.ok \/ r.next <= Len(p) THEN [ok |-> FALSE, result |-> FALSE]
          ELSE [ok |-> TRUE, result |-> r.ends # {}]
          : r \in {SeqEnds(p, 1, text, 1..(Len(text) + 1))}})

\* a bug: the test of the dangerous shapes before the test of the length
SiteMatchDangerFirst(pattern, url) ==
    IF DangerousPattern(pattern)
    THEN [how |-> "substring", result |-> Includes(url, pattern)]
    ELSE IF Len(pattern) > MAX_PATTERN_LENGTH
    THEN [how |-> "truncated",
          result |-> Includes(url, SubSeq(pattern, 1, MAX_PATTERN_LENGTH))]
    ELSE Only({IF r.ok THEN [how |-> "regex", result |-> r.result]
               ELSE [how |-> "fallback", result |-> Includes(url, pattern)]
               : r \in {RegExpTest(pattern, url)}})

\* a bug: the filter without its catch, the SyntaxError of an invalid
\* pattern leaves the matcher
SiteMatchNoCatch(pattern, url) ==
    IF Len(pattern) > MAX_PATTERN_LENGTH
    THEN [how |-> "truncated",
          result |-> Includes(url, SubSeq(pattern, 1, MAX_PATTERN_LENGTH))]
    ELSE IF DangerousPattern(pattern)
    THEN [how |-> "substring", result |-> Includes(url, pattern)]
    ELSE Only({IF r.ok THEN [how |-> "regex", result |-> r.result]
               ELSE [how |-> "error", result |-> FALSE]
               : r \in {RegExpTest(pattern, url)}})

\* lines 257-278: the filter of getElementMappingsForSite on one mapping.
\* result is what the filter returns; how tells the branch that gave it
\* ("regex" when the pattern was compiled and tested)
SiteMatch(pattern, url) ==
    IF Len(pattern) > MAX_PATTERN_LENGTH
    THEN [how |-> "truncated",
          result |-> Includes(url, SubSeq(pattern, 1, MAX_PATTERN_LENGTH))]
    ELSE IF DangerousPattern(pattern)
    THEN [how |-> "substring", result |-> Includes(url, pattern)]
    ELSE Only({IF r.ok THEN [how |-> "regex", result |-> r.result]
               ELSE [how |-> "fallback", result |-> Includes(url, pattern)]
               : r \in {RegExpTest(pattern, url)}})

\* the characters of the model in the order of their codes
Ascii == <<"(", ")", "*", "+", ",", ".", "/", "0", "1", "2", "3", "4", "5",
           "6", "7", "8", "9", ":", "?", "X", BACKSLASH, "a", "b", "c", "d",
           "e", "f", "g", "h", "i", "j", "k", "l", "m", "n", "o", "p", "q",
           "r", "s", "t", "u", "v", "w", "x", "y", "z", "{", "}">>

CharCode(c) == CHOOSE i \in 1..Len(Ascii) : Ascii[i] = c

\* p sorts before q or equals it in the BINARY collation of ORDER BY
RECURSIVE TextLeq(_, _)
TextLeq(p, q) ==
    IF p = <<>> THEN TRUE
    ELSE IF q = <<>> THEN FALSE
    ELSE IF p[1] = q[1] THEN TextLeq(Tail(p), Tail(q))
    ELSE CharCode(p[1]) < CharCode(q[1])

\* a bug: the upsert with the element name alone as its key
SaveElementMappingDBByName(db, sitePattern, elementName, locatorBy, locatorValue, description) ==
    LET old == {m \in db.maps : m.element_name = elementName}
        id == IF old = {} THEN db.nextMap ELSE (CHOOSE m \in old : TRUE).id
    IN [db EXCEPT !.maps = (@ \ old) \cup
                     {[id |-> id, site_pattern |-> sitePattern,
                       element_name |-> elementName, locator_by |-> locatorBy,
                       locator_value |-> locatorValue, description |-> description]},
                  !.nextMap = IF old = {} THEN @ + 1 ELSE @]

\* saveElementMapping: INSERT ... ON CONFLICT(site_pattern, element_name)
\* DO UPDATE SET locator_by, locator_value, description
SaveElementMappingDB(db, sitePattern, elementName, locatorBy, locatorValue, description) ==
    LET old == {m \in db.maps : m.site_pattern = sitePattern
                                /\ m.element_name = elementName}
        id == IF old = {} THEN db.nextMap ELSE (CHOOSE m \in old : TRUE).id
    IN [db EXCEPT !.maps = (@ \ old) \cup
                     {[id |-> id, site_pattern |-> sitePattern,
                       element_name |-> elementName, locator_by |-> locatorBy,
                       locator_value |-> locatorValue, description |-> description]},
                  !.nextMap = IF old = {} THEN @ + 1 ELSE @]

\* getElementMapping(sitePattern, elementName): the rows of that pair
GetElementMappingDB(db, sitePattern, elementName) ==
    {m \in db.maps : m.site_pattern = sitePattern /\ m.element_name = elementName}

\* a bug: only the mappings whose pattern compiled and matched are kept
GetElementMappingsForSiteRegexOnly(db, url) ==
    LET hits == {m \in db.maps :
                   \E r \in {SiteMatch(m.site_pattern, url)} :
                      r.how = "regex" /\ r.result}
        n == Cardinality(hits)
    IN {f \in [1..n -> hits] :
          /\ \A i, j \in 1..n : i # j => f[i] # f[j]
          /\ \A i, j \in 1..n :
                i < j => TextLeq(f[i].site_pattern, f[j].site_pattern)}

\* getElementMappingsForSite(url): SELECT * ... ORDER BY site_pattern, then
\* the filter. The statement orders by site_pattern alone: every order of
\* the rows it allows is a result
GetElementMappingsForSite(db, url) ==
    LET hits == {m \in db.maps : SiteMatch(m.site_pattern, url).result}
        n == Cardinality(hits)
    IN {f \in [1..n -> hits] :
          /\ \A i, j \in 1..n : i # j => f[i] # f[j]
          /\ \A i, j \in 1..n :
                i < j => TextLeq(f[i].site_pattern, f[j].site_pattern)}

\* a bug: the row written replaces the last row of the history
LogExecutionOverwrites(hist, run, sequenceName, toolName, parameters, success, errorMessage) ==
    LET row == [id |-> Len(hist) + 1, run |-> run, sequence_name |-> sequenceName,
                tool_name |-> toolName, parameters |-> JSONStringify(parameters),
                success |-> success, error_message |-> errorMessage]
    IN IF hist = <<>> THEN <<row>> ELSE [hist EXCEPT ![Len(hist)] = row]

\* logExecution: one row appended to execution_history; run is the
\* invocation that wrote the row (bookkeeping of the model, not a column)
LogExecution(hist, run, sequenceName, toolName, parameters, success, errorMessage) ==
    Append(hist, [id |-> Len(hist) + 1, run |-> run, sequence_name |-> sequenceName,
                  tool_name |-> toolName, parameters |-> JSONStringify(parameters),
                  success |-> success, error_message |-> errorMessage])

(* ---------------------------------------------------------------------- *)
(* Inputs of the model                                                     *)
(* ---------------------------------------------------------------------- *)

Navigate == [toolName |-> "navigate",
             parameters |-> <<Prop(<<"u", "r", "l">>, Str(<<"x">>))>>]

\* send_keys with a {{u}} placeholder in its text, and a numeric timeout
SendKeys == [toolName |-> "send_keys",
             parameters |-> <<Prop(<<"t">>, Str(<<"{", "{", "u", "}", "}">>)),
                              Prop(<<"w">>, Num(5))>>]

Click == [toolName |-> "click_element",
          parameters |-> <<Prop(<<"i", "d">>, Str(<<"g", "o">>))>>]

\* a step whose tool name executeAction does not know
Bogus == [toolName |-> "bogus", parameters |-> <<>>]

EmptyDB == [seqs |-> {}, acts |-> {}, nextSeq |-> 1, nextAct |-> 1,
            maps |-> {}, nextMap |-> 1, now |-> 1]

\* the store the server starts on: three sequences saved earlier, one of
\* them under the empty name (save_sequence accepts any string as a name)
StoredDB ==
    SaveSequenceDB(
        SaveSequenceDB(
            SaveSequenceDB(EmptyDB, "login", "", "", <<Navigate, SendKeys, Click>>),
            "", "", "", <<Bogus, Click>>),
        "empty", "", "", <<>>)

NoVariables == <<>>

\* {u: "al"}
VariablesAl == <<Prop(<<"u">>, <<"a", "l">>)>>

\* {u: "\""}: a value with a double quote in it
VariablesQuote == <<Prop(<<"u">>, <<QUOTE>>)>>

\* the calls of run_sequence the agent makes, as <<name, variables>>
\* ("missing" is not stored)
RunInputs == {<<"login", VariablesAl>>, <<"login", VariablesQuote>>,
              <<"", NoVariables>>, <<"empty", NoVariables>>,
              <<"missing", NoVariables>>}

KnownTools == {"navigate", "click_element", "send_keys", "find_element",
               "get_element_text", "hover", "double_click", "right_click",
               "press_key", "drag_and_drop", "upload_file"}

\* what awaiting executeAction(toolName, params) can give: "ok", or the
\* message of the error it throws. session: whether getDriver() finds a driver
StepResults(toolName, session) ==
    IF ~session THEN {"No active browser session"}
    ELSE IF toolName \in KnownTools THEN {"ok", "DriverError"}
    ELSE {"Unknown action"}

AllResults == {"ok", "DriverError", "Unknown action", "No active browser session"}

Runs == 1..MaxRuns

(* ---------------------------------------------------------------------- *)
(* State                                                                   *)
(* ---------------------------------------------------------------------- *)

VARIABLES
    runningSequence,     \* state.runningSequence
    interruptRequested,  \* state.interruptRequested
    db,                  \* the tables action_sequences and sequence_actions
    execution_history,   \* the table execution_history, in insertion order
    currentSession,      \* whether state.currentSession names a driver
    runs,                \* the run_sequence invocations, by number
    recordingSequence,   \* state.recordingSequence
    recordedActions,     \* state.recordedActions
    recordingDescription, \* state.recordingDescription
    recordingTrigger,    \* state.recordingTrigger
    session,             \* the recording session as the replies describe it
    direct,              \* the direct tool call awaiting the driver, if any
    heap                 \* objects held by reference: a caller's parameters
                         \* objects and the copies recordAction makes

\* the recording state, the direct tool calls and the objects
recVars == <<recordingSequence, recordedActions, recordingDescription,
             recordingTrigger, session, direct, heap>>

vars == <<runningSequence, interruptRequested, db, execution_history,
          currentSession, runs, recVars>>

\* a run_sequence invocation not yet issued
NewRun == [pc |-> "new", name |-> NULL, variables |-> <<>>, actions |-> <<>>,
           idx |-> 0, params |-> <<>>, completedSteps |-> 0, results |-> <<>>,
           outcome |-> "none",
           \* bookkeeping of the model
           dispatched |-> 0, flagged |-> FALSE, atFlag |-> 0,
           markerAtEnd |-> NULL, flagAtEnd |-> FALSE, flagAtStart |-> FALSE]

\* no recording session: bookkeeping of the model. recorded is the list of
\* the recordAction calls made since the session started, callFailed whether
\* a direct tool's driver call failed since then, stopFailed whether a
\* stop_recording of the session ended in its catch
NoSession == [status |-> "Idle", name |-> NULL, description |-> NULL,
              trigger |-> NULL, recorded |-> <<>>, callFailed |-> FALSE,
              stopFailed |-> FALSE]

\* lines 24-33: the recording fields of state, and no tool call in flight.
\* recordingDescription and recordingTrigger are not in the literal:
\* undefined, written NULL
RecInit ==
    /\ recordingSequence = NULL
    /\ recordedActions = <<>>
    /\ recordingDescription = NULL
    /\ recordingTrigger = NULL
    /\ session = NoSession
    /\ direct = <<>>
    /\ heap = <<>>

Init ==
    /\ runningSequence = NULL
    /\ interruptRequested = FALSE
    /\ db = StoredDB
    /\ execution_history = <<>>
    /\ currentSession \in BOOLEAN
    /\ runs = [r \in Runs |-> NewRun]
    /\ RecInit

Active(r) == runs[r].pc = "inflight"

(* ---------------------------------------------------------------------- *)
(* run_sequence. A context c = [run, marker, flag, hist] carries one       *)
(* invocation's record and the shared state the handler reads and writes:  *)
(* marker is state.runningSequence, flag state.interruptRequested, hist    *)
(* the execution history; id is the invocation's number.                   *)
(* ---------------------------------------------------------------------- *)

\* the handler returns: what it leaves in the shared state is noted
Return(c, outcome) ==
    [c EXCEPT !.run.pc = "done", !.run.outcome = outcome,
              !.run.markerAtEnd = c.marker, !.run.flagAtEnd = c.flag]

\* a bug: a missing sequence resets the marker and the flag
OnNotFoundResets(c) == Return([c EXCEPT !.marker = NULL, !.flag = FALSE], "not_found")

\* lines 759-765: getSequence gave null
OnNotFound(c) == Return(c, "not_found")

\* a bug: the run starts without clearing the interrupt flag
OnRunStartKeepsFlag(c, name) ==
    [c EXCEPT !.marker = name,
              !.run.results = <<>>, !.run.completedSteps = 0, !.run.idx = 1,
              !.run.flagAtStart = c.flag]

\* lines 767-771: the marker is set, a stale interrupt flag cleared
OnRunStart(c, name) ==
    [c EXCEPT !.marker = name, !.flag = FALSE,
              !.run.results = <<>>, !.run.completedSteps = 0, !.run.idx = 1,
              !.run.flagAtStart = c.flag]

\* line 778: the object { completedSteps }
InterruptedParameters(n) ==
    <<Prop(<<"c", "o", "m", "p", "l", "e", "t", "e", "d", "S", "t", "e", "p", "s">>,
           Num(n))>>

\* a bug: the observed flag is left set
OnInterruptObservedKeepsFlag(c, id) ==
    Return([c EXCEPT !.marker = NULL,
                     !.hist = LogExecution(c.hist, id, c.run.name, "INTERRUPTED",
                                InterruptedParameters(c.run.completedSteps),
                                FALSE, "User interrupted sequence")],
           "interrupted")

\* lines 775-785: the pre-step check found the flag set
OnInterruptObserved(c, id) ==
    Return([c EXCEPT !.marker = NULL, !.flag = FALSE,
                     !.hist = LogExecution(c.hist, id, c.run.name, "INTERRUPTED",
                                InterruptedParameters(c.run.completedSteps),
                                FALSE, "User interrupted sequence")],
           "interrupted")

\* a bug: the outer catch leaves the marker set
OnRunErrorKeepsMarker(c) == Return(c, "error")

\* lines 820-825: the outer catch
OnRunError(c) == Return([c EXCEPT !.marker = NULL], "error")

\* a bug: the last step's success is reported as a failure
OnAllStepsDoneAsFailed(c) == Return([c EXCEPT !.marker = NULL], "failed")

\* lines 813-819: the loop ran out of steps
OnAllStepsDone(c) == Return([c EXCEPT !.marker = NULL], "completed")

\* line 796: executeAction is called and awaited
Dispatch(c, params) ==
    [c EXCEPT !.run.pc = "inflight", !.run.params = params,
              !.run.dispatched = c.run.dispatched + 1]

\* a bug: a step whose substituted parameters do not parse is dispatched
\* with the parameters as stored
RunLoopDispatchesUnparsed(context, id) ==
    Only({IF c.run.idx > Len(c.run.actions) THEN OnAllStepsDone(c)
          ELSE IF c.flag THEN OnInterruptObserved(c, id)
          ELSE Only({IF sub.ok THEN Dispatch(c, sub.ps)
                     ELSE Dispatch(c, c.run.actions[c.run.idx].parameters)
                     : sub \in {Substitute(c.run.actions[c.run.idx].parameters,
                                           c.run.variables)}})
          : c \in {context}})

\* a bug: each pass of the loop reads the sequence from the store again
RunLoopRereads(context, id) ==
    Only({IF c.run.idx > Len(c.run.actions) THEN OnAllStepsDone(c)
          ELSE IF c.flag THEN OnInterruptObserved(c, id)
          ELSE Only({IF sub.ok THEN Dispatch(c, sub.ps) ELSE OnRunError(c)
                     : sub \in {Substitute(c.run.actions[c.run.idx].parameters,
                                           c.run.variables)}})
          : c \in {[context EXCEPT !.run.actions =
                       IF GetSequenceDB(db, context.run.name).found
                       THEN GetSequenceDB(db, context.run.name).actions
                       ELSE <<>>]}})

\* lines 773-796: one pass of the for loop up to the await, or the code
\* after the loop
RunLoop(context, id) ==
    Only({IF c.run.idx > Len(c.run.actions) THEN OnAllStepsDone(c)
          ELSE IF c.flag THEN OnInterruptObserved(c, id)
          ELSE Only({IF sub.ok THEN Dispatch(c, sub.ps) ELSE OnRunError(c)
                     : sub \in {Substitute(c.run.actions[c.run.idx].parameters,
                                           c.run.variables)}})
          : c \in {context}})

\* a bug: a returned step is not counted
OnStepSuccessUncounted(c, id) ==
    [c EXCEPT !.run.results = Append(@, <<"ok", c.run.actions[c.run.idx].toolName>>),
              !.hist = LogExecution(c.hist, id, c.run.name,
                                    c.run.actions[c.run.idx].toolName,
                                    c.run.params, TRUE, NULL),
              !.run.idx = @ + 1]

\* lines 797-799: the awaited call returned
OnStepSuccess(c, id) ==
    [c EXCEPT !.run.results = Append(@, <<"ok", c.run.actions[c.run.idx].toolName>>),
              !.hist = LogExecution(c.hist, id, c.run.name,
                                    c.run.actions[c.run.idx].toolName,
                                    c.run.params, TRUE, NULL),
              !.run.completedSteps = @ + 1,
              !.run.idx = @ + 1]

\* a bug: a failed step is logged but the loop goes on to the next step
OnStepFailureContinues(c, id, message) ==
    RunLoop([c EXCEPT !.hist = LogExecution(c.hist, id, c.run.name,
                                    c.run.actions[c.run.idx].toolName,
                                    c.run.params, FALSE, message),
                     !.run.results = Append(@, <<message,
                                                 c.run.actions[c.run.idx].toolName>>),
                     !.run.idx = @ + 1],
            id)

\* lines 800-810: the awaited call threw
OnStepFailure(c, id, message) ==
    Return([c EXCEPT !.hist = LogExecution(c.hist, id, c.run.name,
                                    c.run.actions[c.run.idx].toolName,
                                    c.run.params, FALSE, message),
                     !.run.results = Append(@, <<message,
                                                 c.run.actions[c.run.idx].toolName>>),
                     !.marker = NULL],
           "failed")

Context(r) == [run |-> runs[r], marker |-> runningSequence,
               flag |-> interruptRequested, hist |-> execution_history]

Apply(r, c) ==
    /\ runs' = [runs EXCEPT ![r] = c.run]
    /\ runningSequence' = c.marker
    /\ interruptRequested' = c.flag
    /\ execution_history' = c.hist

\* a bug: the run saves its sequence back with the parameters it has
\* substituted for the step in flight
StoreWritesOfRunSavesBack(r) ==
    IF runs[r].pc # "inflight" THEN db
    ELSE SaveSequenceDB(db, runs[r].name, "", "",
                        [runs[r].actions EXCEPT
                            ![runs[r].idx].parameters = runs[r].params])

\* lines 757-827: what a step of run_sequence writes to the tables of
\* sequences and element mappings: it calls getSequence and logExecution
\* only, so nothing
StoreWritesOfRun(r) == db

\* lines 757-796: the handler from its call to its first await or return
RunSequence(r, name, variables) ==
    /\ runs[r].pc = "new"
    /\ \A q \in Runs : q < r => runs[q].pc # "new"
    /\ \E sequence \in {GetSequenceDB(db, name)} :
          LET c == [Context(r) EXCEPT !.run.name = name, !.run.variables = variables]
          IN IF ~sequence.found
             THEN Apply(r, OnNotFound(c))
             ELSE \E started \in {RunLoop(OnRunStart(
                                        [c EXCEPT !.run.actions = sequence.actions],
                                        name), r)} :
                     Apply(r, started)
    /\ db' = StoreWritesOfRun(r)
    /\ UNCHANGED <<currentSession, recVars>>

\* lines 796-811 and on: the awaited executeAction settles with result, and
\* the handler runs to its next await or return
StepReturn(r, result) ==
    /\ Active(r)
    /\ result \in StepResults(runs[r].actions[runs[r].idx].toolName, currentSession)
    /\ IF result = "ok"
       THEN \E resumed \in {RunLoop(OnStepSuccess(Context(r), r), r)} :
               Apply(r, resumed)
       ELSE \E failed \in {OnStepFailure(Context(r), r, result)} :
               Apply(r, failed)
    /\ db' = StoreWritesOfRun(r)
    /\ UNCHANGED <<currentSession, recVars>>

\* a bug: interrupt_sequence without its guard
InterruptReplyUnguarded == "requested"

\* lines 925-934: what interrupt_sequence answers
InterruptReply == IF ~Truthy(runningSequence) THEN "not_running" ELSE "requested"

\* lines 923-940: interrupt_sequence
InterruptSequence ==
    /\ IF InterruptReply = "not_running"
       THEN UNCHANGED <<interruptRequested, runs>>
       ELSE /\ interruptRequested' = TRUE
            /\ runs' = [r \in Runs |->
                          IF Active(r)
                          THEN [runs[r] EXCEPT !.flagged = TRUE,
                                               !.atFlag = runs[r].completedSteps]
                          ELSE runs[r]]
    /\ UNCHANGED <<runningSequence, db, execution_history, currentSession, recVars>>

Next ==
    \/ \E r \in Runs, input \in RunInputs : RunSequence(r, input[1], input[2])
    \/ \E r \in Runs, result \in AllResults : StepReturn(r, result)
    \/ InterruptSequence

Spec == Init /\ [][Next]_vars

\* every driver call eventually returns or fails
FairSpec == Spec /\ \A r \in Runs :
                WF_vars(\E result \in AllResults : StepReturn(r, result))

(* ---------------------------------------------------------------------- *)
(* The recording session: start_recording, stop_recording,                 *)
(* cancel_recording, get_recording_status, and the direct tools, which     *)
(* call recordAction once the driver call has returned. A handler of the   *)
(* recording tools is an operator on s, the recording fields of state,     *)
(* that gives the fields it leaves and its reply.                          *)
(* ---------------------------------------------------------------------- *)

\* number of entries a recording captures
MaxRecorded == 2

\* highest row id handed out in sequence_actions
MaxRows == 3

runVars == <<runningSequence, interruptRequested, execution_history,
             currentSession, runs>>

restVars == <<runVars, heap>>

RecState == [recordingSequence |-> recordingSequence,
             recordedActions |-> recordedActions,
             recordingDescription |-> recordingDescription,
             recordingTrigger |-> recordingTrigger]

\* x || ''
OrEmpty(x) == IF Truthy(x) THEN x ELSE ""

\* lines 57-64: recordAction; parameters is a flat object of strings and
\* numbers, which { ...parameters } copies whole
RecordAction(s, toolName, parameters) ==
    IF Truthy(s.recordingSequence)
    THEN [s EXCEPT !.recordedActions =
                      Append(@, [toolName |-> toolName, parameters |-> parameters])]
    ELSE s

\* lines 499-520: start_recording
StartRecordingOn(s, sequenceName, description, triggerPattern) ==
    IF Truthy(s.recordingSequence)
    THEN [s |-> s, reply |-> "already_recording"]
    ELSE [s |-> [recordingSequence |-> sequenceName,
                 recordedActions |-> <<>>,
                 recordingDescription |-> description,
                 recordingTrigger |-> triggerPattern],
          reply |-> "started"]

\* lines 545-548 and 578-581: the recording state cleared
ClearedRecording == [recordingSequence |-> NULL, recordedActions |-> <<>>,
                     recordingDescription |-> "", recordingTrigger |-> ""]

\* lines 528-561: stop_recording on recording fields s and store d
StopRecordingOn(s, d) ==
    IF ~Truthy(s.recordingSequence)
    THEN [s |-> s, db |-> d, reply |-> "not_recording", count |-> 0]
    ELSE [s |-> ClearedRecording,
          db |-> SaveSequenceDB(d, s.recordingSequence,
                                OrEmpty(s.recordingDescription),
                                OrEmpty(s.recordingTrigger),
                                s.recordedActions),
          reply |-> "saved", count |-> Len(s.recordedActions)]

\* a bug: the recording state is cleared before the save
StopRecordingTxClearsFirst(s, d, failAt) ==
    IF ~Truthy(s.recordingSequence) \/ failAt = 0
    THEN StopRecordingOn(s, d)
    ELSE [s |-> ClearedRecording, db |-> d, reply |-> "error", count |-> 0]

\* lines 528-561: stop_recording when saveSequence may throw (failAt > 0):
\* the throw skips lines 545-548 and the catch at 556-560 replies with the
\* error
StopRecordingTx(s, d, failAt) ==
    IF ~Truthy(s.recordingSequence) \/ failAt = 0
    THEN StopRecordingOn(s, d)
    ELSE [s |-> s,
          db |-> SaveSequenceTx(d, s.recordingSequence,
                                OrEmpty(s.recordingDescription),
                                OrEmpty(s.recordingTrigger),
                                s.recordedActions, failAt).db,
          reply |-> "error", count |-> 0]

\* a bug: cancel_recording keeps the captured list
CancelRecordingOnKeepsActions(s) ==
    IF ~Truthy(s.recordingSequence)
    THEN [s |-> s, reply |-> "not_recording"]
    ELSE [s |-> [ClearedRecording EXCEPT !.recordedActions = s.recordedActions],
          reply |-> "cancelled"]

\* lines 569-591: cancel_recording
CancelRecordingOn(s) ==
    IF ~Truthy(s.recordingSequence)
    THEN [s |-> s, reply |-> "not_recording"]
    ELSE [s |-> ClearedRecording, reply |-> "cancelled"]

\* lines 1124-1141: get_recording_status
GetRecordingStatus(s) ==
    IF ~Truthy(s.recordingSequence)
    THEN [reply |-> "not_recording"]
    ELSE [reply |-> "recording", name |-> s.recordingSequence,
          description |-> IF Truthy(s.recordingDescription)
                          THEN s.recordingDescription ELSE "No description",
          trigger |-> IF Truthy(s.recordingTrigger)
                      THEN s.recordingTrigger ELSE "No trigger pattern",
          actions |-> s.recordedActions]

SetRecState(s) ==
    /\ recordingSequence' = s.recordingSequence
    /\ recordedActions' = s.recordedActions
    /\ recordingDescription' = s.recordingDescription
    /\ recordingTrigger' = s.recordingTrigger

\* the calls of start_recording the agent makes, as
\* <<sequenceName, description, triggerPattern>>
StartInputs == {<<"a", "d", "t">>, <<"a", "", "">>, <<"", "d", "t">>}

\* the direct tool calls the agent makes
DirectActions == {Navigate, Click}

\* the run_sequence calls the agent makes while it records
RecRunInputs == {<<"login", VariablesAl>>}

StartRecording(sequenceName, description, triggerPattern) ==
    /\ \E res \in {StartRecordingOn(RecState, sequenceName, description,
                                    triggerPattern)} :
          /\ SetRecState(res.s)
          /\ session' = IF res.reply = "started"
                        THEN [status |-> "Recording", name |-> sequenceName,
                              description |-> description,
                              trigger |-> triggerPattern, recorded |-> <<>>,
                              callFailed |-> FALSE, stopFailed |-> FALSE]
                        ELSE session
    /\ UNCHANGED <<restVars, db, direct>>

StopRecording ==
    /\ db.nextAct + Len(recordedActions) - 1 <= MaxRows
    /\ \E failAt \in 0..1 :
       \E res \in {StopRecordingTx(RecState, db, failAt)} :
          /\ SetRecState(res.s)
          /\ db' = res.db
          /\ session' = IF res.reply = "saved" THEN NoSession
                        ELSE IF res.reply = "error"
                        THEN [session EXCEPT !.stopFailed = TRUE]
                        ELSE session
    /\ UNCHANGED <<restVars, direct>>

CancelRecording ==
    /\ \E res \in {CancelRecordingOn(RecState)} :
          /\ SetRecState(res.s)
          /\ session' = IF res.reply = "cancelled" THEN NoSession ELSE session
    /\ UNCHANGED <<restVars, db, direct>>

\* lines 166-168, 212-216: a direct tool up to its await of the driver;
\* without a driver getDriver throws and the handler replies with the error
DirectCall(action) ==
    /\ direct = <<>>
    /\ Len(recordedActions) < MaxRecorded
    /\ Len(session.recorded) < MaxRecorded
    /\ direct' = IF currentSession THEN <<action>> ELSE <<>>
    /\ UNCHANGED <<restVars, db, recordingSequence, recordedActions,
                   recordingDescription, recordingTrigger, session>>

\* a bug: recordAction is called in the catch too
DirectSettlesAlwaysRecords(s, action, result) ==
    RecordAction(s, action.toolName, action.parameters)

\* lines 169-178, 241-252: the recording fields after the driver call of
\* action settled with result: recordAction follows the await inside the
\* try, a throw goes to the catch past it
DirectSettles(s, action, result) ==
    IF result = "ok"
    THEN RecordAction(s, action.toolName, action.parameters)
    ELSE s

\* lines 169-178, 217-226: the driver call settles; recordAction is called
\* when it returned
DirectReturn(result) ==
    /\ direct # <<>>
    /\ direct' = <<>>
    /\ SetRecState(DirectSettles(RecState, direct[1], result))
    /\ session' = IF session.status # "Recording" THEN session
                  ELSE IF result = "ok"
                  THEN [session EXCEPT !.recorded = Append(@, direct[1])]
                  ELSE [session EXCEPT !.callFailed = TRUE]
    /\ UNCHANGED <<restVars, db>>

RecSpecInit ==
    /\ runningSequence = NULL
    /\ interruptRequested = FALSE
    /\ db = EmptyDB
    /\ execution_history = <<>>
    /\ currentSession = TRUE
    /\ runs = [r \in Runs |-> NewRun]
    /\ RecInit

RecNext ==
    \/ \E input \in StartInputs : StartRecording(input[1], input[2], input[3])
    \/ StopRecording
    \/ CancelRecording
    \/ \E action \in DirectActions : DirectCall(action)
    \/ \E result \in {"ok", "DriverError"} : DirectReturn(result)

\* the recording tools and the direct tools on an empty store
RecSpec == RecSpecInit /\ [][RecNext]_vars

\* a run of a stored sequence, next to direct tool calls, while the agent
\* records
MirrorNext ==
    \/ \E input \in StartInputs : StartRecording(input[1], input[2], input[3])
    \/ \E action \in DirectActions : DirectCall(action)
    \/ \E result \in {"ok", "DriverError"} : DirectReturn(result)
    \/ \E input \in RecRunInputs : RunSequence(1, input[1], input[2])
    \/ \E result \in AllResults : StepReturn(1, result)

MirrorSpec == Init /\ [][MirrorNext]_vars

(* ---------------------------------------------------------------------- *)
(* recordAction on objects held by reference. The handlers above pass a    *)
(* fresh object of strings and numbers; here a caller passes an object     *)
(* with a nested object in it, keeps it, and changes it after the call.    *)
(* heap[i] is the object with reference i, a list of properties whose      *)
(* values are numbers or references.                                       *)
(* ---------------------------------------------------------------------- *)

Ref(i) == [t |-> "ref", v |-> i]

\* the numbers the caller writes
SnapValues == {1, 2}

\* the caller's parameters object { u: a, o: <the nested object> } and the
\* nested object { d: b }; they are heap[1] and heap[2]
CallerObject(a) == <<Prop(<<"u">>, Num(a)), Prop(<<"o">>, Ref(2))>>

NestedObject(b) == <<Prop(<<"d">>, Num(b))>>

\* the value an object graph has now: references followed
RECURSIVE Deref(_, _)
Deref(h, value) ==
    IF value.t = "ref"
    THEN [i \in 1..Len(h[value.v]) |->
             Prop(h[value.v][i].k, Deref(h, h[value.v][i].v))]
    ELSE value

\* lines 57-64: recordAction; { ...parameters } is a new object with the
\* properties of parameters, a nested object being the same object in both
RecordActionHeap(s, h, toolName, ref) ==
    IF Truthy(s.recordingSequence)
    THEN [s |-> [s EXCEPT !.recordedActions =
                    Append(@, [toolName |-> toolName,
                               parameters |-> Ref(Len(h) + 1)])],
          heap |-> Append(h, h[ref.v])]
    ELSE [s |-> s, heap |-> h]

\* the caller calls recordAction('navigate', parameters)
RecordCall ==
    /\ Len(recordedActions) < MaxRecorded
    /\ Len(session.recorded) < MaxRecorded
    /\ \E res \in {RecordActionHeap(RecState, heap, "navigate", Ref(1))} :
          /\ SetRecState(res.s)
          /\ heap' = res.heap
    /\ session' = IF session.status = "Recording"
                  THEN [session EXCEPT !.recorded =
                           Append(@, [toolName |-> "navigate",
                                      parameters |-> Deref(heap, Ref(1))])]
                  ELSE session
    /\ UNCHANGED <<runVars, db, direct>>

\* the caller: parameters.u = v
MutateTop(v) ==
    /\ heap' = [heap EXCEPT ![1] = <<Prop(<<"u">>, Num(v)), heap[1][2]>>]
    /\ UNCHANGED <<runVars, db, direct, recordingSequence, recordedActions,
                   recordingDescription, recordingTrigger, session>>

\* the caller: parameters.o.d = v
MutateNested(v) ==
    /\ heap' = [heap EXCEPT ![2] = <<Prop(<<"d">>, Num(v))>>]
    /\ UNCHANGED <<runVars, db, direct, recordingSequence, recordedActions,
                   recordingDescription, recordingTrigger, session>>

SnapshotInit ==
    /\ runningSequence = NULL
    /\ interruptRequested = FALSE
    /\ db = EmptyDB
    /\ execution_history = <<>>
    /\ currentSession = TRUE
    /\ runs = [r \in Runs |-> NewRun]
    /\ recordingSequence = NULL
    /\ recordedActions = <<>>
    /\ recordingDescription = NULL
    /\ recordingTrigger = NULL
    /\ session = NoSession
    /\ direct = <<>>
    /\ heap \in {<<CallerObject(a), NestedObject(b)>> : a, b \in SnapValues}

SnapshotNext ==
    \/ \E input \in StartInputs : StartRecording(input[1], input[2], input[3])
    \/ RecordCall
    \/ \E v \in SnapValues : MutateTop(v)
    \/ \E v \in SnapValues : MutateNested(v)

SnapshotSpec == SnapshotInit /\ [][SnapshotNext]_vars

(* ---------------------------------------------------------------------- *)
(* The store under the tools that write it                                 *)
(* ---------------------------------------------------------------------- *)

\* the calls of save_sequence the agent makes, as
\* <<name, description, triggerPattern, actions>>
SaveInputs == {<<"login", "d", "", <<Navigate, SendKeys>>>>,
               <<"login", "", "t", <<Click>>>>,
               <<"login", "d", "", <<>>>>,
               <<"", "", "", <<Bogus, Click>>>>,
               <<"", "d", "", <<Navigate>>>>,
               <<"other", "", "", <<SendKeys>>>>}

\* the sequence rows ever inserted, a bound of the model
MaxSequences == 3

\* the seconds the clock of the store goes through, a bound of the model
MaxClock == 2

\* the names the agent passes to the tools of the store
StoreNames == {"login", "", "other", "none"}

\* lines 607-621: save_sequence; the save commits, or fails at the insert of
\* action failAt and the handler answers with the error
SaveSequence(name, description, triggerPattern, actions) ==
    /\ db.nextAct + Len(actions) - 1 <= MaxRows
    /\ (\E q \in db.seqs : q.name = name) \/ db.nextSeq <= MaxSequences
    /\ \E failAt \in 0..Len(actions) :
          db' = SaveSequenceTx(db, name, description, triggerPattern, actions,
                               failAt).db
    /\ UNCHANGED <<runVars, recVars>>

\* lines 729-746: delete_sequence
DeleteSequence(name) ==
    /\ db' = DeleteSequenceDB(db, name).db
    /\ UNCHANGED <<runVars, recVars>>

\* a second passes: CURRENT_TIMESTAMP of the statements that follow
Tick ==
    /\ db.now < MaxClock
    /\ db' = [db EXCEPT !.now = @ + 1]
    /\ UNCHANGED <<runVars, recVars>>

StoreNext ==
    \/ \E input \in SaveInputs : SaveSequence(input[1], input[2], input[3], input[4])
    \/ \E name \in StoreNames : DeleteSequence(name)
    \/ Tick

StoreSpec == RecSpecInit /\ [][StoreNext]_vars

(* ---------------------------------------------------------------------- *)
(* Runs next to the tools that write the store                             *)
(* ---------------------------------------------------------------------- *)

\* the store with login = [navigate, send_keys({{u}})]
EngineDB == SaveSequenceDB(EmptyDB, "login", "", "", <<Navigate, SendKeys>>)

EngineInit ==
    /\ runningSequence = NULL
    /\ interruptRequested = FALSE
    /\ db = EngineDB
    /\ execution_history = <<>>
    /\ currentSession \in BOOLEAN
    /\ runs = [r \in Runs |-> NewRun]
    /\ RecInit

\* one run, invocation 1, and the tools of the store and of recording
EngineNext ==
    \/ RunSequence(1, "login", VariablesAl)
    \/ \E result \in AllResults : StepReturn(1, result)
    \/ \E input \in SaveInputs : SaveSequence(input[1], input[2], input[3], input[4])
    \/ \E name \in StoreNames : DeleteSequence(name)
    \/ StartRecording("a", "d", "t")
    \/ StopRecording
    \/ CancelRecording

EngineSpec == EngineInit /\ [][EngineNext]_vars

(* ---------------------------------------------------------------------- *)
(* The executor under the values of the variables                          *)
(* ---------------------------------------------------------------------- *)

\* {u: "p$$w"}
VariablesDollar == <<Prop(<<"u">>, <<"p", "$", "$", "w">>)>>

\* send_keys with the placeholder {{u}} twice in its text: {{u}}/{{u}}
SendKeysTwice ==
    [toolName |-> "send_keys",
     parameters |-> <<Prop(<<"t">>, Str(<<"{", "{", "u", "}", "}", "/",
                                          "{", "{", "u", "}", "}">>))>>]

\* the store of Init with the sequence twice = [send_keys({{u}}/{{u}})]
SubstDB == SaveSequenceDB(StoredDB, "twice", "", "", <<SendKeysTwice>>)

\* the last two: {x: "al"}, a name no placeholder has, and {".": "al"}
SubstInputs == {<<"login", VariablesAl>>, <<"login", VariablesDollar>>,
                <<"twice", VariablesAl>>, <<"login", NoVariables>>,
                <<"login", <<Prop(<<"x">>, <<"a", "l">>)>>>>,
                <<"login", <<Prop(<<".">>, <<"a", "l">>)>>>>}

SubstInit ==
    /\ runningSequence = NULL
    /\ interruptRequested = FALSE
    /\ db = SubstDB
    /\ execution_history = <<>>
    /\ currentSession \in BOOLEAN
    /\ runs = [r \in Runs |-> NewRun]
    /\ RecInit

SubstNext ==
    \/ \E r \in Runs, input \in SubstInputs : RunSequence(r, input[1], input[2])
    \/ \E r \in Runs, result \in AllResults : StepReturn(r, result)

SubstSpec == SubstInit /\ [][SubstNext]_vars

(* ---------------------------------------------------------------------- *)
(* The element mappings under the tools that write and read them           *)
(* ---------------------------------------------------------------------- *)

\* the mapping rows stored, a bound of the model
MaxMappings == 2

\* github\.com
GithubPattern == <<"g", "i", "t", "h", "u", "b", BACKSLASH, ".", "c", "o", "m">>

\* (a+)+ : a quantified group with a quantifier of its own
NestedPattern == <<"(", "a", "+", ")", "+">>

\* a++ : a quantifier repeated
RepeatedPattern == <<"a", "+", "+">>

\* (?:a+)+
GroupPattern == <<"(", "?", ":", "a", "+", ")", "+">>

\* github.com : the dot stands for any character
DotPattern == <<"g", "i", "t", "h", "u", "b", ".", "c", "o", "m">>

\* a+* : no regular expression (nothing to repeat)
InvalidPattern == <<"a", "+", "*">>

\* 199 times a, then ++ : longer than MAX_PATTERN_LENGTH by one
LongPattern ==
    [i \in 1..(MAX_PATTERN_LENGTH + 1) |-> IF i < MAX_PATTERN_LENGTH THEN "a" ELSE "+"]

SitePatterns == {GithubPattern, DotPattern, NestedPattern, RepeatedPattern, GroupPattern,
                 InvalidPattern, LongPattern}

\* https://github.com/login
GithubUrl == <<"h", "t", "t", "p", "s", ":", "/", "/", "g", "i", "t", "h", "u",
               "b", ".", "c", "o", "m", "/", "l", "o", "g", "i", "n">>

\* the first MAX_PATTERN_LENGTH characters of LongPattern
LongUrl == [i \in 1..MAX_PATTERN_LENGTH |-> IF i < MAX_PATTERN_LENGTH THEN "a" ELSE "+"]

Urls == {GithubUrl, LongUrl,
         <<"g", "i", "t", "h", "u", "b", "X", "c", "o", "m">>,
         <<"x", "/", "a", "a">>,
         <<"x", "/", "a", "+", "+">>,
         <<"x", "/", "a", "+", "*">>,
         <<"x", "/", "(", "a", "+", ")", "+">>,
         <<"x", "/", "(", "?", ":", "a", "+", ")", "+">>}

\* the calls of save_element the agent makes, as
\* <<sitePattern, elementName, by, value, description>>
MapInputs == {<<p, n, l[1], l[2], l[3]>> :
                p \in SitePatterns, n \in {"btn", "box"},
                l \in {<<"id", "x", "">>, <<"css", "y", "d">>}}

\* lines 954-965: save_element
SaveElement(sitePattern, elementName, by, value, description) ==
    /\ \/ GetElementMappingDB(db, sitePattern, elementName) # {}
       \/ Cardinality(db.maps) < MaxMappings
    /\ db' = SaveElementMappingDB(db, sitePattern, elementName, by, value,
                                  description)
    /\ UNCHANGED <<runVars, recVars>>

MapNext ==
    \E input \in MapInputs :
       SaveElement(input[1], input[2], input[3], input[4], input[5])

MapSpec == RecSpecInit /\ [][MapNext]_vars

(* ---------------------------------------------------------------------- *)
(* The execution history with its timestamps                               *)
(* ---------------------------------------------------------------------- *)

\* the history rows written, a bound of the model
MaxLogged == 4

\* the limits get_execution_history is called with
Limits == 1..3

\* the row logExecution inserts, with the column executed_at that
\* DEFAULT CURRENT_TIMESTAMP fills: now is the second the row is written in
LogExecutionAt(hist, sequenceName, toolName, parameters, success, errorMessage, now) ==
    Append(hist, [id |-> Len(hist) + 1, run |-> 0, sequence_name |-> sequenceName,
                  tool_name |-> toolName, parameters |-> JSONStringify(parameters),
                  success |-> success, error_message |-> errorMessage,
                  executed_at |-> now])

\* the second of the last row written: the clock never goes back
LastSecond(hist) == IF hist = <<>> THEN 1 ELSE hist[Len(hist)].executed_at

\* getExecutionHistory(limit): SELECT * ... ORDER BY executed_at DESC LIMIT ?
\* and the parse of each row. The statement orders by executed_at alone, so
\* the order among the rows of one second, and which of them the limit
\* keeps, is the engine's choice: every result the statement allows
GetExecutionHistory(hist, limit) ==
    LET n == Len(hist)
        k == IF limit < n THEN limit ELSE n
        picks == {f \in [1..k -> 1..n] :
                    /\ \A i, j \in 1..k : i # j => f[i] # f[j]
                    /\ \A i, j \in 1..k :
                          i < j => hist[f[i]].executed_at >= hist[f[j]].executed_at
                    /\ \A x \in 1..n : (\A i \in 1..k : f[i] # x) =>
                          \A i \in 1..k :
                             hist[f[i]].executed_at >= hist[x].executed_at}
    IN {[i \in 1..k |->
           [id |-> hist[f[i]].id, sequence_name |-> hist[f[i]].sequence_name,
            tool_name |-> hist[f[i]].tool_name,
            parameters |-> JSONParse(hist[f[i]].parameters).ps,
            success |-> hist[f[i]].success,
            error_message |-> hist[f[i]].error_message,
            executed_at |-> hist[f[i]].executed_at]] : f \in picks}

\* lines 797-810: one logExecution of a run, in the second of the row
\* before it or in a later one
LogExecutionCall(action, success, now) ==
    /\ Len(execution_history) < MaxLogged
    /\ execution_history' =
          LogExecutionAt(execution_history, "login", action.toolName,
                         action.parameters, success,
                         IF success THEN NULL ELSE "DriverError", now)
    /\ UNCHANGED <<runningSequence, interruptRequested, currentSession, runs, db,
                   recVars>>

HistoryNext ==
    \E action \in DirectActions : \E success \in BOOLEAN :
       \E now \in {LastSecond(execution_history), LastSecond(execution_history) + 1} :
          LogExecutionCall(action, success, now)

HistorySpec == RecSpecInit /\ [][HistoryNext]_vars

(* ---------------------------------------------------------------------- *)
(* Properties of the executor and the interrupt protocol                   *)
(* ---------------------------------------------------------------------- *)

\* the history rows invocation r wrote, in the order it wrote them
RowsOf(r) == SelectSeq(execution_history, LAMBDA row : row.run = r)

SuccessRowsOf(r) == SelectSeq(RowsOf(r), LAMBDA row : row.success)

NoRunActive == \A r \in Runs : ~Active(r)

\* C1: a run_sequence call made while another invocation is suspended on a
\* step fails with AlreadyRunningError: it dispatches no step and changes
\* neither the running marker nor the interrupt flag.
C1_SecondRunRejected ==
    [][\A r \in Runs :
         (/\ runs[r].pc = "new"
          /\ runs'[r].pc # "new"
          /\ runs'[r].outcome # "not_found"
          /\ \E q \in Runs : Active(q))
         => (/\ runs'[r].pc = "done"
             /\ runs'[r].outcome = "already_running"
             /\ runs'[r].dispatched = 0
             /\ runningSequence' = runningSequence
             /\ interruptRequested' = interruptRequested)]_vars

\* C2: once the interrupt flag has been set while a run is suspended on a
\* step, that run dispatches no further step.
C2_NoDispatchAfterFlag ==
    [][\A r \in Runs :
         runs[r].flagged => runs'[r].dispatched = runs[r].dispatched]_vars

\* C3 as stated: a run that ends interrupted has completed exactly the steps
\* that had returned before the interrupt flag was set.
C3_CountAtFlag ==
    \A r \in Runs :
        runs[r].outcome = "interrupted" => runs[r].completedSteps = runs[r].atFlag

\* C3 as amended: a run that ends interrupted has completed the steps that
\* had returned before the flag was set and the one step that was in flight
\* when it was set: the count is the number of steps returned by the time the
\* pre-step check observes the flag.
C3_CountAtObservation ==
    \A r \in Runs :
        runs[r].outcome = "interrupted"
        => /\ runs[r].flagged
           /\ runs[r].completedSteps = runs[r].atFlag + 1
           /\ runs[r].completedSteps = Len(SuccessRowsOf(r))
           /\ runs[r].completedSteps < Len(runs[r].actions)

C3_Witness ==
    \E r \in Runs : runs[r].outcome = "interrupted" /\ runs[r].completedSteps = 2

\* C4 as stated: whenever no run is active the interrupt flag is false.
C4_FlagOnlyDuringRun == NoRunActive => ~interruptRequested

\* C4 as amended: whenever no run is active the interrupt flag is false,
\* unless a run completed or failed while an interrupt request made during
\* its last step was pending; a run that ends interrupted leaves it false.
C4_FlagStaleOnlyAfterPending ==
    /\ (NoRunActive /\ interruptRequested)
       => \E r \in Runs : /\ runs[r].pc = "done"
                          /\ runs[r].outcome \in {"completed", "failed"}
                          /\ runs[r].flagged
                          /\ runs[r].flagAtEnd
    /\ \A r \in Runs : runs[r].outcome = "interrupted" => ~runs[r].flagAtEnd

C4_Witness ==
    /\ NoRunActive
    /\ interruptRequested
    /\ \E r \in Runs : runs[r].outcome = "completed"

\* C5: interrupt_sequence answers that nothing is running exactly when no
\* run invocation is active; with a run active, whatever its name, it sets
\* the flag.
C5_NotRunningIffNoRun ==
    (InterruptReply = "not_running") <=> NoRunActive

\* C6: a run whose step k fails ends failed with completedSteps = k - 1 and
\* the marker cleared, having dispatched k steps and no more, and having
\* written k - 1 success rows followed by one failure row that carries the
\* error message; a run that wrote a failure row for a step is such a run,
\* and a step with an unrecognized tool name never succeeds.
C6_FailureAtStepK ==
    \A r \in Runs :
        LET k == runs[r].idx
            rows == RowsOf(r)
        IN /\ runs[r].outcome = "failed"
              => /\ runs[r].completedSteps = k - 1
                 /\ runs[r].dispatched = k
                 /\ runs[r].markerAtEnd = NULL
                 /\ Len(rows) = k
                 /\ \A i \in 1..(k - 1) :
                       /\ rows[i].success
                       /\ rows[i].tool_name = runs[r].actions[i].toolName
                 /\ ~rows[k].success
                 /\ rows[k].tool_name = runs[r].actions[k].toolName
                 /\ rows[k].error_message = runs[r].results[k][1]
                 /\ rows[k].error_message \in AllResults \ {"ok"}
           /\ (\E i \in 1..Len(rows) :
                  ~rows[i].success /\ rows[i].tool_name # "INTERRUPTED")
              => runs[r].outcome = "failed"
           /\ \A i \in 1..Len(rows) :
                 rows[i].tool_name \notin KnownTools \cup {"INTERRUPTED"}
                 => ~rows[i].success

C6_Witness ==
    \E r \in Runs : /\ runs[r].outcome = "failed"
                    /\ runs[r].idx = 2
                    /\ Len(runs[r].actions) = 3

\* C7: a run that ends interrupted has cleared the flag and the marker and
\* written, after its success rows, exactly one INTERRUPTED row with
\* success = false carrying its completed-step count; it returns the results
\* of the completed steps.
C7_InterruptedOutcome ==
    \A r \in Runs :
        LET rows == RowsOf(r)
            n == runs[r].completedSteps
        IN runs[r].outcome = "interrupted"
           => /\ ~runs[r].flagAtEnd
              /\ runs[r].markerAtEnd = NULL
              /\ Len(rows) = n + 1
              /\ \A i \in 1..n : rows[i].success /\ rows[i].tool_name # "INTERRUPTED"
              /\ rows[n + 1].tool_name = "INTERRUPTED"
              /\ ~rows[n + 1].success
              /\ rows[n + 1].sequence_name = runs[r].name
              /\ JSONParse(rows[n + 1].parameters).ps = InterruptedParameters(n)
              /\ Len(runs[r].results) = n
              /\ \A i \in 1..n : runs[r].results[i][1] = "ok"

C7_Witness ==
    \E r \in Runs : runs[r].outcome = "interrupted" /\ runs[r].completedSteps = 1

\* C8: a run all of whose steps were dispatched and returned successfully
\* ends completed, with completedSteps the number of actions, the marker
\* cleared, and one success row per step, in step order; each success row
\* is written with the parameters the step was dispatched with, the stored
\* parameters after substitution.
C8_CompletedOutcome ==
    /\ [](\A r \in Runs : \A rows \in {RowsOf(r)} : \A n \in {Len(runs[r].actions)} :
            /\ (/\ runs[r].pc = "done"
                /\ runs[r].outcome # "not_found"
                /\ Len(SuccessRowsOf(r)) = n)
               => runs[r].outcome = "completed"
            /\ runs[r].outcome = "completed"
               => /\ runs[r].completedSteps = n
                  /\ runs[r].markerAtEnd = NULL
                  /\ Len(rows) = n
                  /\ Len(runs[r].results) = n
                  /\ \A i \in 1..n :
                        /\ rows[i].success
                        /\ rows[i].tool_name = runs[r].actions[i].toolName
                        /\ rows[i].sequence_name = runs[r].name)
    /\ [][\A r \in Runs :
            (/\ Active(r)
             /\ Len(execution_history') = Len(execution_history) + 1
             /\ execution_history'[Len(execution_history')].run = r
             /\ execution_history'[Len(execution_history')].success)
            => execution_history'[Len(execution_history')].parameters =
                  JSONStringify(Substitute(runs[r].actions[runs[r].idx].parameters,
                                           runs[r].variables).ps)]_vars

C8_Witness ==
    \E r \in Runs : runs[r].outcome = "completed" /\ Len(runs[r].actions) = 3

\* C9: no two automation-boundary calls of the executor are in flight at
\* the same time.
C9_OneCallInFlight == Cardinality({r \in Runs : Active(r)}) <= 1

\* C10: if every boundary call eventually returns or fails, every run
\* invocation eventually returns an outcome, and whenever no invocation is
\* in progress the running marker is empty.
C10_RunsReturnAndClearMarker ==
    /\ \A r \in Runs :
          Active(r) ~> (/\ runs[r].pc = "done"
                        /\ runs[r].outcome \in {"completed", "failed",
                                                "interrupted", "error"})
    /\ [](NoRunActive => runningSequence = NULL)

C10_Witness ==
    /\ NoRunActive
    /\ \E r \in Runs : runs[r].outcome = "error"
    /\ \E r \in Runs : runs[r].outcome = "failed"

\* C11: run_sequence for a name with no stored sequence answers not found,
\* and only then; that invocation dispatches no step and changes neither the
\* running marker, nor the interrupt flag, nor the execution history, nor
\* the stored sequences.
C11_NotFoundChangesNothing ==
    /\ [](\A r \in Runs :
            runs[r].pc # "new"
            => /\ (runs[r].outcome = "not_found")
                    <=> ~\E q \in db.seqs : q.name = runs[r].name
               /\ runs[r].outcome = "not_found"
                    => /\ runs[r].pc = "done"
                       /\ runs[r].dispatched = 0
                       /\ runs[r].results = <<>>
                       /\ RowsOf(r) = <<>>)
    /\ [][\A r \in Runs :
            (runs[r].pc = "new" /\ runs'[r].outcome = "not_found")
            => UNCHANGED <<runningSequence, interruptRequested,
                           execution_history, db>>]_vars

\* a missing sequence was asked for while another run held the marker
C11_Witness ==
    \E r \in Runs : /\ runs[r].outcome = "not_found"
                    /\ runs[r].markerAtEnd # NULL
                    /\ \E q \in Runs : Active(q)

C13_SecondStartRejected ==
    session.status = "Recording"
    => \A input \in StartInputs :
          LET res == StartRecordingOn(RecState, input[1], input[2], input[3])
          IN /\ res.reply = "already_recording"
             /\ res.s = RecState

\* C14: while Idle, start_recording with any name, the empty one included,
\* starts a session with no captured action: afterwards the status tool
\* reports the recording, recordAction appends, and a second start_recording
\* is refused.
C14_StartEntersRecording ==
    session.status = "Idle"
    => \A input \in StartInputs :
          LET res == StartRecordingOn(RecState, input[1], input[2], input[3])
          IN /\ res.reply = "started"
             /\ res.s.recordedActions = <<>>
             /\ GetRecordingStatus(res.s).reply = "recording"
             /\ \A a \in DirectActions :
                   RecordAction(res.s, a.toolName, a.parameters).recordedActions
                      = <<a>>
             /\ \A again \in StartInputs :
                   StartRecordingOn(res.s, again[1], again[2], again[3]).reply
                      = "already_recording"

\* C15: stop_recording while Recording saves the captured actions, in the
\* order captured, under the session's name, description and trigger,
\* clears the recording state and reports the number of actions saved;
\* while Idle it answers that nothing is recorded and changes nothing.
C15_StopPersistsCaptured ==
    LET res == StopRecordingOn(RecState, db)
        saved == GetSequenceDB(res.db, session.name)
    IN /\ session.status = "Recording"
          => /\ res.reply = "saved"
             /\ res.count = Len(session.recorded)
             /\ res.s = ClearedRecording
             /\ saved.found
             /\ Len(saved.actions) = Len(session.recorded)
             /\ \A i \in 1..Len(saved.actions) :
                   /\ saved.actions[i].toolName = session.recorded[i].toolName
                   /\ saved.actions[i].parameters = session.recorded[i].parameters
             /\ \E row \in res.db.seqs :
                   /\ row.name = session.name
                   /\ row.description = session.description
                   /\ row.trigger_pattern = session.trigger
       /\ session.status = "Idle"
          => /\ res.reply = "not_recording"
             /\ res.s = RecState
             /\ res.db = db

\* C16: cancel_recording while Recording drops the captured actions and
\* ends the session (the handler has no access to the store); while Idle it
\* answers that nothing is recorded and changes nothing.
C16_CancelDiscards ==
    LET res == CancelRecordingOn(RecState)
    IN /\ session.status = "Recording"
          => res.reply = "cancelled" /\ res.s = ClearedRecording
       /\ session.status = "Idle"
          => res.reply = "not_recording" /\ res.s = RecState

\* C17: recordAction changes nothing while Idle; while Recording it appends
\* one entry at the end of the captured list and changes nothing else, so
\* the captured list is the list of the actions recorded since the start,
\* in the order they were recorded.
C17_RecordAppendsInOrder ==
    /\ \A a \in DirectActions :
          LET after == RecordAction(RecState, a.toolName, a.parameters)
          IN /\ session.status = "Idle" => after = RecState
             /\ session.status = "Recording"
                => after = [RecState EXCEPT !.recordedActions = Append(@, a)]
    /\ session.status = "Recording" => recordedActions = session.recorded

\* C19: while a session is Recording, each action performed through the
\* driver adds its entry (toolName, parameters) to the captured list, be it
\* a direct tool call or a step a run dispatched.
C19_EveryActionMirrored ==
    [][session.status = "Recording"
       => /\ DirectReturn("ok")
             => recordedActions' = Append(recordedActions, direct[1])
          /\ \A r \in Runs :
                StepReturn(r, "ok")
                => recordedActions' =
                      Append(recordedActions,
                             [toolName |-> runs[r].actions[runs[r].idx].toolName,
                              parameters |-> runs[r].params])]_vars


ActionRowsOf(d, name) ==
    {a \in d.acts : \E q \in d.seqs : q.name = name /\ a.sequence_id = q.id}

\* C20: whatever the store holds, after saveSequence(n, list) getSequence(n)
\* gives exactly list, in order, with step orders 1..k, nothing of what n
\* held before remaining, and the sequences of other names as they were; in
\* every store reached the step orders of each sequence are 1..k without
\* gap or repetition.
C20_SaveReplacesActions ==
    /\ \A input \in SaveInputs :
          LET after == SaveSequenceDB(db, input[1], input[2], input[3], input[4])
              got == GetSequenceDB(after, input[1])
          IN /\ got.found
             /\ Len(got.actions) = Len(input[4])
             /\ \A i \in 1..Len(got.actions) :
                   /\ got.actions[i].toolName = input[4][i].toolName
                   /\ got.actions[i].parameters = input[4][i].parameters
                   /\ got.actions[i].stepOrder = i
             /\ Cardinality(ActionRowsOf(after, input[1])) = Len(input[4])
             /\ \A other \in {q.name : q \in db.seqs} \ {input[1]} :
                   GetSequenceDB(after, other) = GetSequenceDB(db, other)
    /\ \A q \in db.seqs :
          LET rows == ActionRowsOf(db, q.name)
          IN /\ {a.step_order : a \in rows} = 1..Cardinality(rows)
             /\ \A q2 \in db.seqs : q2.name = q.name => q2 = q
    /\ \A a \in db.acts : \E q \in db.seqs : a.sequence_id = q.id

\* a sequence saved with two actions was saved again with one
C20_Witness ==
    /\ db.nextAct = 4
    /\ \E q \in db.seqs :
          /\ q.name = "login"
          /\ Len(GetSequenceDB(db, "login").actions) = 1
          /\ GetSequenceDB(db, "login").actions[1].toolName = "click_element"

\* C21: saveSequence is one indivisible transaction. A save that succeeds
\* leaves the row and the whole new action list together, as getSequence and
\* listSequences read them; a save that fails at the insert of any action
\* leaves the store exactly as it was; and what a read finds between saves is
\* always one saved version whole: the description, the trigger pattern and
\* the complete action list of one and the same call.
C21_SaveIsAtomic ==
    /\ \A input \in SaveInputs : \A failAt \in 0..Len(input[4]) :
          \A res \in {SaveSequenceTx(db, input[1], input[2], input[3], input[4],
                                     failAt)} :
             IF res.ok
             THEN \A got \in {GetSequenceDB(res.db, input[1])} :
                     /\ got.found
                     /\ Len(got.actions) = Len(input[4])
                     /\ \A i \in 1..Len(got.actions) :
                           /\ got.actions[i].toolName = input[4][i].toolName
                           /\ got.actions[i].parameters = input[4][i].parameters
                     /\ \E l \in ListSequencesDB(res.db) :
                           /\ l.name = input[1]
                           /\ l.description = input[2]
                           /\ l.trigger_pattern = input[3]
                           /\ l.action_count = Len(input[4])
             ELSE /\ res.db = db
                  /\ \A n \in StoreNames :
                        GetSequenceDB(res.db, n) = GetSequenceDB(db, n)
                  /\ ListSequencesDB(res.db) = ListSequencesDB(db)
    /\ \A l \in ListSequencesDB(db) : \A got \in {GetSequenceDB(db, l.name)} :
          \E input \in SaveInputs :
             /\ input[1] = l.name
             /\ input[2] = l.description
             /\ input[3] = l.trigger_pattern
             /\ l.action_count = Len(input[4])
             /\ Len(got.actions) = Len(input[4])
             /\ \A i \in 1..Len(input[4]) :
                   /\ got.actions[i].toolName = input[4][i].toolName
                   /\ got.actions[i].parameters = input[4][i].parameters

\* the store holds login with one action, and a save of two actions over it
\* that fails at the second insert leaves it as it is
C21_Witness ==
    /\ \E l \in ListSequencesDB(db) :
          l.name = "login" /\ l.description = "" /\ l.action_count = 1
    /\ db.nextAct + 1 <= MaxRows
    /\ \A res \in {SaveSequenceTx(db, "login", "d", "", <<Navigate, SendKeys>>, 2)} :
          ~res.ok /\ res.db = db

\* C22: saveSequence with an empty name stores nothing: no sequence with an
\* empty name is ever in the store.
C22_NoEmptyName == \A q \in db.seqs : q.name # ""

\* C23: deleteSequence(name) answers true exactly when a sequence of that
\* name was stored; afterwards getSequence(name) finds nothing, no action row
\* of the deleted sequence is left, a later saveSequence(name, [c]) gives
\* exactly [c], and the other sequences read as before.
C23_DeleteCascades ==
    \A name \in StoreNames : \A res \in {DeleteSequenceDB(db, name)} :
       /\ res.deleted = (\E q \in db.seqs : q.name = name)
       /\ ~GetSequenceDB(res.db, name).found
       /\ \A a \in res.db.acts : \E q \in res.db.seqs : a.sequence_id = q.id
       /\ \A other \in StoreNames \ {name} :
             GetSequenceDB(res.db, other) = GetSequenceDB(db, other)
       /\ \A again \in {SaveSequenceDB(res.db, name, "", "", <<Click>>)} :
             /\ Len(GetSequenceDB(again, name).actions) = 1
             /\ GetSequenceDB(again, name).actions[1].toolName = Click.toolName
             /\ GetSequenceDB(again, name).actions[1].parameters = Click.parameters
             /\ Cardinality(ActionRowsOf(again, name)) = 1
             /\ Cardinality(again.acts) = Cardinality(res.db.acts) + 1

\* action rows were written, and every sequence has been deleted since: no
\* row of any table is left
C23_Witness == db.nextAct > 2 /\ db.seqs = {} /\ db.acts = {}

\* C24: getExecutionHistory(limit) gives exactly the min(limit, total) rows
\* logged last, the newest first, in the exact reverse of the order they
\* were logged in, also when several were logged within one second.
C24_NewestFirst ==
    \A limit \in Limits : \A got \in GetExecutionHistory(execution_history, limit) :
       /\ Len(got) = IF limit < Len(execution_history)
                      THEN limit ELSE Len(execution_history)
       /\ \A i \in 1..Len(got) : got[i].id = Len(execution_history) - i + 1

(* ---------------------------------------------------------------------- *)
(* Properties of the site matcher and the element mappings                 *)
(* ---------------------------------------------------------------------- *)

\* C25: a stored pattern with nested or repeated quantifiers, such as (a+)+,
\* is never compiled as a regular expression: for every URL the matcher
\* answers whether the URL contains the whole pattern as a substring.
C25_DangerousNeverCompiled ==
    \A m \in db.maps :
       m.site_pattern \in {NestedPattern, RepeatedPattern, GroupPattern} =>
          \A url \in Urls : \A r \in {SiteMatch(m.site_pattern, url)} :
             r.how # "regex" /\ r.result = Includes(url, m.site_pattern)

\* C26: a stored pattern longer than 200 characters is never compiled: it
\* matches exactly the URLs that contain its first 200 characters, whatever
\* its shape is.
C26_LongPatternTruncated ==
    \A m \in db.maps :
       Len(m.site_pattern) > MAX_PATTERN_LENGTH =>
          \A url \in Urls : \A r \in {SiteMatch(m.site_pattern, url)} :
             /\ r.how = "truncated"
             /\ r.result = Includes(url, SubSeq(m.site_pattern, 1, MAX_PATTERN_LENGTH))

\* a pattern of 201 characters with a repeated quantifier at its end is
\* stored; a URL holds its first 200 characters and not the whole of it
C26_Witness ==
    /\ \E m \in db.maps : m.site_pattern = LongPattern
    /\ DangerousPattern(LongPattern)
    /\ SiteMatch(LongPattern, LongUrl).result
    /\ ~Includes(LongUrl, LongPattern)

\* C27: for a stored pattern of at most 200 characters that the matcher does
\* not flag, the answer is that of the unanchored regular expression test
\* when the pattern is a regular expression (github\.com matches
\* https://github.com/login) and substring containment when it is none; no
\* pattern and URL make the matcher raise an error.
C27_RegexOrSubstring ==
    \A m \in db.maps : \A url \in Urls : \A r \in {SiteMatch(m.site_pattern, url)} :
       /\ r.how # "error"
       /\ (Len(m.site_pattern) <= MAX_PATTERN_LENGTH
             /\ ~DangerousPattern(m.site_pattern)) =>
             \A t \in {RegExpTest(m.site_pattern, url)} :
                IF t.ok THEN r.result = t.result
                ELSE r.result = Includes(url, m.site_pattern)
       /\ (m.site_pattern = GithubPattern /\ url = GithubUrl) => r.result

\* the pattern github\.com and a pattern that is no regular expression are
\* stored; the first matches the URL of the example in its middle, the
\* second matches the URL that contains it
C27_Witness ==
    /\ \E m \in db.maps : m.site_pattern = GithubPattern
    /\ \E m \in db.maps : m.site_pattern = InvalidPattern
    /\ ~RegExpTest(InvalidPattern, GithubUrl).ok
    /\ SiteMatch(GithubPattern, GithubUrl).result
    /\ ~Includes(GithubUrl, GithubPattern)
    /\ SiteMatch(InvalidPattern, <<"x", "/", "a", "+", "*">>).result

\* C28: saveElementMapping is an upsert on the pair (sitePattern,
\* elementName): the store never holds two mappings of one pair; after a save
\* the pair has exactly one mapping, with the locator strategy, the locator
\* value and the description of the call and the id it had; every mapping of
\* another pair, the same name under another pattern included, is as before.
C28_UpsertOnPair ==
    /\ \A m1, m2 \in db.maps :
          (m1.site_pattern = m2.site_pattern /\ m1.element_name = m2.element_name)
             => m1 = m2
    /\ \A input \in MapInputs :
          \A after \in {SaveElementMappingDB(db, input[1], input[2], input[3],
                                             input[4], input[5])} :
             \A old \in {GetElementMappingDB(db, input[1], input[2])} :
                /\ Cardinality(GetElementMappingDB(after, input[1], input[2])) = 1
                /\ \A m \in GetElementMappingDB(after, input[1], input[2]) :
                      /\ m.locator_by = input[3]
                      /\ m.locator_value = input[4]
                      /\ m.description = input[5]
                      /\ \A o \in old : m.id = o.id
                /\ after.maps \ GetElementMappingDB(after, input[1], input[2])
                      = db.maps \ old

\* the store holds one element name under two site patterns, with different
\* locators
C28_Witness ==
    \E m1, m2 \in db.maps :
       /\ m1.element_name = m2.element_name
       /\ m1.site_pattern # m2.site_pattern
       /\ m1.locator_by # m2.locator_by

C30_DispatchedWithValues ==
    \A r \in Runs :
       runs[r].pc = "inflight" =>
          \A stored \in {runs[r].actions[runs[r].idx].parameters} :
             \A sent \in {runs[r].params} :
                /\ Len(sent) = Len(stored)
                /\ \A i \in 1..Len(stored) :
                   \A x \in {runs[r].variables[j] : j \in 1..Len(runs[r].variables)} :
                      /\ sent[i].k = stored[i].k
                      /\ stored[i].v = Str(PlaceholderPattern(x.k))
                            => sent[i].v = Str(x.v)
                      /\ stored[i].v = Str(PlaceholderPattern(x.k) \o <<"/">>
                                              \o PlaceholderPattern(x.k))
                            => sent[i].v = Str(x.v \o <<"/">> \o x.v)
                      /\ stored[i].v.t = "num" => sent[i].v = stored[i].v

\* the text parameters of a step that hold the placeholder of a supplied
\* variable, as <<index, variable>>
Applies(parameters, variables) ==
    {iv \in (1..Len(parameters)) \X (1..Len(variables)) :
        /\ parameters[iv[1]].v.t = "str"
        /\ Includes(parameters[iv[1]].v.s, PlaceholderPattern(variables[iv[2]].k))}

\* C31: where no supplied variable applies, substitution changes nothing: a
\* dispatched step whose stored parameters hold no placeholder {{v}} of a
\* supplied variable v is sent with its stored parameters, a placeholder of
\* another name left as it is, and a run ends with an error of the
\* substitution only if some step held the placeholder of a supplied variable.
C31_NoVariableNoChange ==
    \A r \in Runs :
       /\ runs[r].pc = "inflight" =>
             \A stored \in {runs[r].actions[runs[r].idx].parameters} :
                Applies(stored, runs[r].variables) = {}
                   => runs[r].params = stored
       /\ runs[r].outcome = "error" =>
             \E i \in 1..Len(runs[r].actions) :
                Applies(runs[r].actions[i].parameters, runs[r].variables) # {}

\* C32: a save under a stored name keeps the row's created_at (and its id),
\* puts the description and the trigger pattern of the call in it and sets
\* updated_at to a second not before the one it had; no save changes the
\* row or the actions of a sequence of another name.
C32_ResaveKeepsCreatedAt ==
    /\ \A input \in SaveInputs :
          \A after \in {SaveSequenceDB(db, input[1], input[2], input[3], input[4])} :
             /\ \A q \in db.seqs :
                   IF q.name = input[1]
                   THEN \E n \in after.seqs :
                           /\ n.name = q.name
                           /\ n.id = q.id
                           /\ n.created_at = q.created_at
                           /\ n.description = input[2]
                           /\ n.trigger_pattern = input[3]
                           /\ n.updated_at >= q.updated_at
                   ELSE /\ q \in after.seqs
                        /\ ActionRowsOf(after, q.name) = ActionRowsOf(db, q.name)
             /\ Cardinality({n \in after.seqs : n.name = input[1]}) = 1
    /\ \A q \in db.seqs : q.created_at <= q.updated_at /\ q.updated_at <= db.now

\* a sequence created in one second was saved again in a later one
C32_Witness == \E q \in db.seqs : q.name = "login" /\ q.created_at < q.updated_at

(* ---------------------------------------------------------------------- *)
(* Properties of runs next to the writers of the store                     *)
(* ---------------------------------------------------------------------- *)

\* C33: the execution history is append-only: every step of a run, every
\* save and delete of a sequence (the one the rows name included) and every
\* recording operation leaves the rows written before unchanged and in
\* place, only the steps of a run add rows, and logExecution adds exactly
\* one row after the rows there are.
C33_HistoryAppendOnly ==
    /\ [](\A after \in {LogExecution(execution_history, 1, "login", "navigate",
                                      Navigate.parameters, TRUE, NULL)} :
            /\ Len(after) = Len(execution_history) + 1
            /\ SubSeq(after, 1, Len(execution_history)) = execution_history)
    /\ [][/\ Len(execution_history') >= Len(execution_history)
          /\ SubSeq(execution_history', 1, Len(execution_history))
                = execution_history
          /\ runs' = runs => execution_history' = execution_history]_vars

\* the history has rows of login, login has been deleted since, and a
\* recording has been saved
C33_Witness ==
    /\ \E i \in 1..Len(execution_history) :
          execution_history[i].sequence_name = "login"
    /\ ~GetSequenceDB(db, "login").found
    /\ GetSequenceDB(db, "a").found

\* C35: a run works on the action list it read from the store when it
\* started: the list it holds never changes afterwards, whatever is saved or
\* deleted under its name while it waits for a step, and every step it
\* dispatches is the next one of that list with the variables substituted.
C35_RunKeepsItsList ==
    /\ [](runs[1].pc = "inflight" =>
            /\ runs[1].idx <= Len(runs[1].actions)
            /\ runs[1].params
                  = Substitute(runs[1].actions[runs[1].idx].parameters,
                               runs[1].variables).ps)
    /\ [][/\ runs[1].pc # "new" => runs'[1].actions = runs[1].actions
          /\ (runs[1].pc = "new" /\ runs'[1].pc = "inflight") =>
                runs'[1].actions = GetSequenceDB(db, "login").actions
          /\ (runs[1].pc = "inflight" /\ runs'[1].pc = "inflight"
                /\ runs'[1] # runs[1]) =>
                runs'[1].idx = runs[1].idx + 1]_vars

\* the run waits for its second step while the store has no login
C35_Witness ==
    /\ runs[1].pc = "inflight"
    /\ runs[1].idx = 2
    /\ ~GetSequenceDB(db, "login").found

\* C38: a run writes nothing to the store but history rows: a step of a run,
\* whatever its outcome and its variables, leaves the stored sequences, with
\* their placeholders, and the element mappings as they were.
C38_RunOnlyAppendsHistory ==
    [][runs' # runs => db' = db]_vars

\* a run of login with {u: "al"} has completed, and step 2 of the stored
\* login still has its placeholder
C38_Witness ==
    /\ \E r \in Runs : /\ runs[r].outcome = "completed"
                        /\ runs[r].variables = VariablesAl
                        /\ Len(RowsOf(r)) = 3
    /\ GetSequenceDB(db, "login").actions[2].parameters = SendKeys.parameters

\* C36: when the substituted text of a step does not parse, the run ends
\* with an error there: the step is never dispatched and has no history row,
\* the rows of the run are those of the steps before it, all successful, and
\* the handler leaves the running marker cleared; a step whose substituted
\* text does not parse is never in flight.
C36_UnparsedStepEndsRun ==
    \A r \in Runs :
       /\ runs[r].outcome = "error" =>
             /\ runs[r].idx \in 1..Len(runs[r].actions)
             /\ ~Substitute(runs[r].actions[runs[r].idx].parameters,
                            runs[r].variables).ok
             /\ runs[r].dispatched = runs[r].idx - 1
             /\ runs[r].markerAtEnd = NULL
             /\ \A rows \in {RowsOf(r)} :
                   /\ Len(rows) = runs[r].idx - 1
                   /\ \A i \in 1..Len(rows) :
                         /\ rows[i].success
                         /\ rows[i].tool_name = runs[r].actions[i].toolName
       /\ runs[r].pc = "inflight" =>
             /\ runs[r].dispatched = runs[r].idx
             /\ Substitute(runs[r].actions[runs[r].idx].parameters,
                           runs[r].variables).ok

\* a run of login with a double quote as the value of u ended with an error
\* at step 2, after the row of step 1
C36_Witness ==
    \E r \in Runs :
       /\ runs[r].outcome = "error"
       /\ runs[r].variables = VariablesQuote
       /\ runs[r].idx = 2
       /\ Len(RowsOf(r)) = 1
       /\ runningSequence = NULL

\* C39: a direct tool whose driver call fails is not captured: a call in
\* flight that settles with an error leaves the recording fields as they
\* are, the step of a failed call changes no recording field, and the
\* captured list grows only at the step where a call returned successfully,
\* by that call's action.
C39_FailedCallNotCaptured ==
    /\ [](direct # <<>> =>
            /\ DirectSettles(RecState, direct[1], "DriverError") = RecState
            /\ DirectSettles(RecState, direct[1], "ok").recordedActions
                 \in {recordedActions, Append(recordedActions, direct[1])})
    /\ [][/\ (session'.callFailed /\ ~session.callFailed)
                => (RecState' = RecState)
          /\ (Len(recordedActions') > Len(recordedActions))
                => (/\ direct # <<>>
                    /\ direct' = <<>>
                    /\ recordedActions' = Append(recordedActions, direct[1])
                    /\ session'.callFailed = session.callFailed)]_vars

\* a session that captured one action and saw one driver call fail
C39_Witness ==
    /\ Truthy(recordingSequence)
    /\ session.callFailed
    /\ Len(recordedActions) = 1
    /\ session.recorded = recordedActions

\* C40: whenever no recording is going on the captured list is empty, both
\* by the state's own test of the name and by the replies the agent got.
C40_IdleMeansEmpty ==
    /\ ~Truthy(recordingSequence) => recordedActions = <<>>
    /\ session.status = "Idle" => recordedActions = <<>>

\* a session that had captured actions was stopped, its actions are in the
\* store, and no recording is going on
C40_Witness ==
    /\ session.status = "Idle"
    /\ ~Truthy(recordingSequence)
    /\ db.acts # {}
    /\ recordedActions = <<>>

\* C34: a direct tool's action is captured when its driver call completes,
\* not when it is issued: the step that issues a call changes no recording
\* field, a call that completes while no session is going on is captured by
\* none, and a call that completes successfully while a session is going on
\* is appended to that session's captured list, whatever the session was
\* when the call was issued.
C34_CapturedAtCompletion ==
    [][/\ (direct = <<>> /\ direct' # <<>>) => (RecState' = RecState)
       /\ (direct # <<>> /\ direct' = <<>>)
             => (/\ (session.status = "Idle") => (RecState' = RecState)
                 /\ (/\ session.status = "Recording"
                     /\ Len(session'.recorded) > Len(session.recorded))
                       => (recordedActions' =
                             Append(recordedActions, direct[1])))]_vars

\* C37: when the store throws while stop_recording saves, the recording
\* goes on with its name, description, trigger and captured actions as they
\* were: the reply is the error, no recording field changes, and a later
\* stop_recording saves that session with all its captured actions, a later
\* cancel_recording cancels it.
C37_FailedStopKeepsSession ==
    /\ [](Truthy(recordingSequence) =>
            \A res \in {StopRecordingTx(RecState, db, 1)} :
               /\ res.reply = "error"
               /\ res.s = RecState
               /\ CancelRecordingOn(res.s).reply = "cancelled"
               /\ \A later \in {StopRecordingTx(res.s, res.db, 0)} :
                     /\ later.reply = "saved"
                     /\ later.count = Len(recordedActions)
                     /\ later.s = ClearedRecording)
    /\ [][(session'.stopFailed /\ ~session.stopFailed)
            => (/\ RecState' = RecState
                /\ Truthy(recordingSequence')
                /\ session' = [session EXCEPT !.stopFailed = TRUE]
                /\ session'.status = "Recording")]_vars

\* a stop_recording of a session with a captured action failed, and the
\* session still records with that action
C37_Witness ==
    /\ session.stopFailed
    /\ session.status = "Recording"
    /\ Truthy(recordingSequence)
    /\ recordingSequence = session.name
    /\ Len(recordedActions) >= 1
    /\ recordedActions = session.recorded


====
